---- MODULE Spec2Model ----
(***************************************************************************)
(* Model of the cp-faculty-backend document graph: the cascading deletes   *)
(* of the course tree, the per-kind Config aggregation of question saves,  *)
(* the rewiring of Section references between the two lists of a Test and  *)
(* the bulk add / bulk upsert of students.                                 *)
(***************************************************************************)
EXTENDS Integers, Sequences, FiniteSets, TLC

\* ------------------------------------------------------------------ bounds
\* documents of the course graph created in one behaviour
MaxDocs == 7
\* store operations that are forced to fail within one delete request
MaxFail == 1

\* a null reference (document ids start at 1)
NULL == 0

\* Sections created in one behaviour
MaxSections == 1

\* save() calls that persist a question in one behaviour
MaxSaves == 3

\* records of the batch of a bulk request
MaxBatch == 2

\* the longest items list and correct_order of a Rearrange question
MaxItems == 3

VARIABLES
    db,         \* course graph: one function id -> document per collection
    nextId,     \* next fresh document id of the course graph
    lastDelete, \* the delete request served: its faults, the store before it, its store calls
    tests,      \* collection "tests": id -> the two Section reference lists
    sections,   \* collection "sections": id -> name and time_restricted
    nextSection,\* next fresh Section id
    lastReq,    \* the last request on tests and sections and its response
    testReq,    \* the last add_test or update_test request: its Test id and body
    docs,       \* collections "mcqs" and "rearranges": kind -> id -> question
    configs,    \* collections "mcq_configs" and "rearrange_configs": kind -> documents
    nextDoc,    \* next fresh question id
    nSaves,     \* save() calls that persisted a question
    saved,      \* per kind, the values of the questions whose save() returned
    lastSave,   \* the last save() or delete() of a question and its outcome
    proc,       \* per request, its position in save() and what it holds in memory
    given,      \* the Rearrange question built from arbitrary items and correct_order
    running,    \* the CourseQuestion.delete in progress: its snapshot and its position
    updating,   \* per handler, the update_section request it serves and its position
    adding,     \* per handler, the add_section_to_test request it serves and its position
    students,   \* collection "students": id -> Student
    req,        \* the bulk request: route, primaryField, batch, the caller's college
    pcBulk,     \* position of the bulk request: "idle", "loop", "done", "aborted"
    httpStatus, \* status of the response to the bulk request
    idx,        \* index of the next record of the batch
    results,    \* the result entries of the bulk request
    created_count,
    updated_count,
    trail       \* per processed record: its fault, the store before and after it

cascadeVars == <<db, nextId, lastDelete>>

sectionVars == <<tests, sections, nextSection, lastReq, testReq>>

configVars == <<docs, configs, nextDoc, nSaves, saved, lastSave, proc, given>>

studentVars == <<students, req, pcBulk, httpStatus, idx, results, created_count,
                 updated_count, trail>>

stepVars == <<running, updating, adding>>

vars == <<cascadeVars, sectionVars, configVars, studentVars, stepVars>>

notCascadeVars == <<sectionVars, configVars, studentVars, stepVars>>

notSectionVars == <<cascadeVars, configVars, studentVars, stepVars>>

notConfigVars == <<cascadeVars, sectionVars, studentVars, stepVars>>

notStudentVars == <<cascadeVars, sectionVars, configVars, stepVars>>

\* ------------------------------------------------------------ small helpers
Range(s) == {s[i] : i \in 1..Len(s)}

Last(s) == s[Len(s)]

Remove(f, ids) == [x \in (DOMAIN f) \ ids |-> f[x]]

Put(f, id, doc) == [x \in (DOMAIN f) \cup {id} |-> IF x = id THEN doc ELSE f[x]]

RECURSIVE Concat(_)
Concat(ss) == IF ss = <<>> THEN <<>> ELSE Head(ss) \o Concat(Tail(ss))

RECURSIVE SubsetsUpTo(_, _)
\* the subsets of S with at most k elements
SubsetsUpTo(S, k) ==
    IF k = 0 THEN {{}}
    ELSE LET P == SubsetsUpTo(S, k - 1)
         IN  P \cup {T \cup {x} : T \in P, x \in S}

\* ------------------------------------------------------ course graph: data
\* Unit.unit_type
UnitTypes == {"text", "mcq", "rearrange", "coding"}

\* the collections of the course graph
EmptyDb ==
    [courses |-> <<>>, chapters |-> <<>>, lessons |-> <<>>, units |-> <<>>,
     mcqs |-> <<>>, rearranges |-> <<>>, questions |-> <<>>,
     testcase_groups |-> <<>>, testcases |-> <<>>]

Course(chs) == [chapters |-> chs]
Chapter(ls) == [lessons |-> ls]
Lesson(us) == [units |-> us]
Unit(t, m, r, c) == [unit_type |-> t, mcq |-> m, rearrange |-> r, coding |-> c]
CourseQuestion(gs) == [testcase_groups |-> gs]
TestCaseGroup(q, cs) == [question_id |-> q, cases |-> cs]
Payload == [payload |-> TRUE]

\* the one Course of the model
TheCourse == 1

\* ----------------------------------------- course graph: the store's delete
\* one store call of a delete request: the delete on collection coll issued by
\* the delete() of document by
Step(coll, by) == [coll |-> coll, by |-> by]

\* the result of a call: store, trace of store calls, whether it raised
Ret(d, l, r) == [db |-> d, log |-> l, raised |-> r]

Event(coll, by, ids, ok) == [coll |-> coll, by |-> by, ids |-> ids, ok |-> ok]

\* reverse_delete_rule=NULLIFY of a list field: the whole list is unset on
\* every document that references one of the deleted ids
Nullify(d, coll, ids) ==
    CASE coll = "testcases" ->
           [d EXCEPT !.testcase_groups =
               [g \in DOMAIN @ |->
                   IF Range(@[g].cases) \cap ids # {}
                   THEN [@[g] EXCEPT !.cases = <<>>] ELSE @[g]]]
      [] coll = "testcase_groups" ->
           [d EXCEPT !.questions =
               [q \in DOMAIN @ |->
                   IF Range(@[q].testcase_groups) \cap ids # {}
                   THEN [@[q] EXCEPT !.testcase_groups = <<>>] ELSE @[q]]]
      [] OTHER -> d

\* QuerySet.delete / Document.delete on collection coll for the ids of seq
\* idseq, issued by document by; it raises, changing nothing, when the
\* request's faults F hold the step
StoreDelete(coll, idseq, by, s, F) ==
    IF Step(coll, by) \in F
    THEN Ret(s.db, Append(s.log, Event(coll, by, idseq, FALSE)), TRUE)
    ELSE LET d1 == Nullify(s.db, coll, Range(idseq))
             d2 == [d1 EXCEPT ![coll] = Remove(@, Range(idseq))]
         IN  Ret(d2, Append(s.log, Event(coll, by, idseq, TRUE)), FALSE)

\* an exception caught by try/except: the caller goes on
Swallow(r) == [r EXCEPT !.raised = FALSE]

\* ------------------------------------------- course graph: delete() methods
RECURSIVE SetToSeq(_)
\* the documents of a query, in the store's natural (insertion) order
SetToSeq(S) ==
    IF S = {} THEN <<>>
    ELSE LET m == CHOOSE x \in S : \A y \in S : x <= y
         IN  <<m>> \o SetToSeq(S \ {m})

\* a delete that passes the collected ids on as they are
DedupeDropped(seq) == seq

RECURSIVE Dedupe(_)
\* list(set(tc_ids)): every id once (the order is immaterial to id__in)
Dedupe(seq) ==
    IF seq = <<>> THEN <<>>
    ELSE <<Head(seq)>> \o Dedupe(SelectSeq(Tail(seq), LAMBDA x : x # Head(seq)))

\* the three bulk deletes of CourseQuestion.delete, each raising to the caller
QuestionDeletes(q, group_ids, tc_ids, s, F) ==
    LET r1 == IF tc_ids # <<>> THEN StoreDelete("testcases", tc_ids, q, s, F) ELSE s
        r2 == IF r1.raised THEN r1
              ELSE StoreDelete("testcase_groups", group_ids, q, r1, F)
    IN  IF r2.raised THEN r2 ELSE StoreDelete("questions", <<q>>, q, r2, F)

\* CourseQuestion.delete(use_transaction)
CourseQuestionDelete(q, use_transaction, s, F) ==
    LET group_ids == s.db.questions[q].testcase_groups
        groups == SetToSeq(Range(group_ids) \cap DOMAIN s.db.testcase_groups)
        tc_ids == Dedupe(Concat([i \in 1..Len(groups) |->
                                   s.db.testcase_groups[groups[i]].cases]))
    IN  IF group_ids = <<>>
        THEN StoreDelete("questions", <<q>>, q, s, F)
        ELSE IF use_transaction
             \* the session is opened but handed to none of the deletes
             THEN QuestionDeletes(q, group_ids, tc_ids, s, F)
             ELSE QuestionDeletes(q, group_ids, tc_ids, s, F)

\* self.<ref>.delete() inside try/except of Unit.delete, for a plain payload;
\* a dangling reference raises on access and is swallowed like a failed delete
PayloadDelete(coll, ref, s, F) ==
    IF ref = NULL \/ ref \notin DOMAIN s.db[coll] THEN s
    ELSE Swallow(StoreDelete(coll, <<ref>>, ref, s, F))

\* self.coding.delete() inside try/except of Unit.delete
CodingDelete(ref, s, F) ==
    IF ref = NULL \/ ref \notin DOMAIN s.db.questions THEN s
    ELSE Swallow(CourseQuestionDelete(ref, FALSE, s, F))

\* a Unit.delete that leaves the coding payload alone
UnitDeleteNoCoding(u, s, F) ==
    LET doc == s.db.units[u]
        r1 == PayloadDelete("mcqs", doc.mcq, s, F)
        r2 == PayloadDelete("rearranges", doc.rearrange, r1, F)
    IN  StoreDelete("units", <<u>>, u, r2, F)

\* a Unit.delete that is left at the first payload delete that raises
UnitDeleteAbort(u, s, F) ==
    LET doc == s.db.units[u]
        raw(coll, ref, t) ==
            IF ref = NULL \/ ref \notin DOMAIN t.db[coll] THEN t
            ELSE StoreDelete(coll, <<ref>>, ref, t, F)
        r1 == raw("mcqs", doc.mcq, s)
        r2 == IF r1.raised THEN r1 ELSE raw("rearranges", doc.rearrange, r1)
        r3 == IF r2.raised THEN r2
              ELSE IF doc.coding = NULL \/ doc.coding \notin DOMAIN r2.db.questions THEN r2
              ELSE CourseQuestionDelete(doc.coding, FALSE, r2, F)
    IN  IF r3.raised THEN r3 ELSE StoreDelete("units", <<u>>, u, r3, F)

\* Unit.delete
UnitDelete(u, s, F) ==
    LET doc == s.db.units[u]
        r1 == PayloadDelete("mcqs", doc.mcq, s, F)
        r2 == PayloadDelete("rearranges", doc.rearrange, r1, F)
        r3 == CodingDelete(doc.coding, r2, F)
    IN  StoreDelete("units", <<u>>, u, r3, F)

RECURSIVE DeleteUnitsStop(_, _, _)
\* a loop over the Units that ends at the first Unit whose delete raises
DeleteUnitsStop(us, s, F) ==
    IF us = <<>> THEN s
    ELSE IF Head(us) \notin DOMAIN s.db.units THEN DeleteUnitsStop(Tail(us), s, F)
    ELSE LET r == UnitDelete(Head(us), s, F)
         IN  IF r.raised THEN Swallow(r) ELSE DeleteUnitsStop(Tail(us), r, F)

RECURSIVE DeleteUnits(_, _, _)
\* for u in self.units: try u.delete() except: pass
DeleteUnits(us, s, F) ==
    IF us = <<>> THEN s
    ELSE DeleteUnits(Tail(us),
                     IF Head(us) \in DOMAIN s.db.units
                     THEN Swallow(UnitDelete(Head(us), s, F)) ELSE s,
                     F)

\* Lesson.delete
LessonDelete(l, s, F) ==
    StoreDelete("lessons", <<l>>, l, DeleteUnits(s.db.lessons[l].units, s, F), F)

RECURSIVE DeleteLessons(_, _, _)
\* for lesson in self.lessons: try lesson.delete() except: pass
DeleteLessons(ls, s, F) ==
    IF ls = <<>> THEN s
    ELSE DeleteLessons(Tail(ls),
                       IF Head(ls) \in DOMAIN s.db.lessons
                       THEN Swallow(LessonDelete(Head(ls), s, F)) ELSE s,
                       F)

\* Chapter.delete
ChapterDelete(ch, s, F) ==
    StoreDelete("chapters", <<ch>>, ch,
                DeleteLessons(s.db.chapters[ch].lessons, s, F), F)

RECURSIVE DeleteChapters(_, _, _)
\* for ch in self.chapters: try ch.delete() except: pass
DeleteChapters(chs, s, F) ==
    IF chs = <<>> THEN s
    ELSE DeleteChapters(Tail(chs),
                        IF Head(chs) \in DOMAIN s.db.chapters
                        THEN Swallow(ChapterDelete(Head(chs), s, F)) ELSE s,
                        F)

\* Course.delete
CourseDelete(c, s, F) ==
    StoreDelete("courses", <<c>>, c,
                DeleteChapters(s.db.courses[c].chapters, s, F), F)

\* ------------------------------------------ course graph: what a course owns
EmptyOwned == [coll \in DOMAIN EmptyDb |-> {}]

RefsOf(d, coll, field, owners) ==
    UNION {Range(d[coll][o][field]) : o \in owners}

\* the stored documents reachable from course c over the ownership edges
Owned(d, c) ==
    LET chs == RefsOf(d, "courses", "chapters", {c} \cap DOMAIN d.courses)
                 \cap DOMAIN d.chapters
        ls  == RefsOf(d, "chapters", "lessons", chs) \cap DOMAIN d.lessons
        us  == RefsOf(d, "lessons", "units", ls) \cap DOMAIN d.units
        qs  == {d.units[u].coding : u \in us} \cap DOMAIN d.questions
        gs  == RefsOf(d, "questions", "testcase_groups", qs)
                 \cap DOMAIN d.testcase_groups
    IN  [courses |-> {c} \cap DOMAIN d.courses,
         chapters |-> chs, lessons |-> ls, units |-> us,
         mcqs |-> {d.units[u].mcq : u \in us} \cap DOMAIN d.mcqs,
         rearranges |-> {d.units[u].rearrange : u \in us} \cap DOMAIN d.rearranges,
         questions |-> qs, testcase_groups |-> gs,
         testcases |-> RefsOf(d, "testcase_groups", "cases", gs)
                         \cap DOMAIN d.testcases]

\* what question q owns: its groups and their test cases
OwnedByQuestion(d, q) ==
    LET gs == Range(d.questions[q].testcase_groups) \cap DOMAIN d.testcase_groups
    IN  [EmptyOwned EXCEPT
           !.questions = {q}, !.testcase_groups = gs,
           !.testcases = RefsOf(d, "testcase_groups", "cases", gs)
                           \cap DOMAIN d.testcases]

Collections == DOMAIN EmptyDb

\* the store calls a delete of the documents in own can issue
StepsOf(own) ==
    UNION {{Step(coll, id) : id \in own[coll]} :
              coll \in Collections \ {"testcases", "testcase_groups"}}
    \cup {Step(coll, q) : coll \in {"testcases", "testcase_groups"},
                          q \in own.questions}

\* the fault sets of one request
FaultSets(own) == SubsetsUpTo(StepsOf(own), MaxFail)

\* ------------------------------------------------ course graph: the actions
NoDelete ==
    [op |-> "none", target |-> NULL, use_transaction |-> FALSE, faults |-> {},
     pre |-> EmptyDb, log |-> <<>>, raised |-> FALSE]

\* no CourseQuestion.delete is in progress
NotRunning ==
    [status |-> "idle", q |-> NULL, group_ids |-> <<>>, tc_ids |-> <<>>, todo |-> <<>>]

InitCascade ==
    /\ db = [EmptyDb EXCEPT !.courses = Put(<<>>, TheCourse, Course(<<>>))]
    /\ nextId = TheCourse + 1
    /\ lastDelete = NoDelete
    /\ running = NotRunning

\* the course graph is authored before the first delete request
Authoring == lastDelete.op = "none"

CourseExists == TheCourse \in DOMAIN db.courses

\* the chapter, lesson, unit and group new children are attached to: the last
\* of each reference list
LastChapter ==
    IF CourseExists /\ db.courses[TheCourse].chapters # <<>>
    THEN Last(db.courses[TheCourse].chapters) ELSE NULL

LastLesson ==
    IF LastChapter \in DOMAIN db.chapters /\ db.chapters[LastChapter].lessons # <<>>
    THEN Last(db.chapters[LastChapter].lessons) ELSE NULL

\* the CourseQuestion created last
LastQuestion ==
    IF db.questions = <<>> THEN NULL
    ELSE CHOOSE q \in DOMAIN db.questions : \A p \in DOMAIN db.questions : p <= q

LastGroup ==
    IF LastQuestion \in DOMAIN db.questions
       /\ db.questions[LastQuestion].testcase_groups # <<>>
    THEN Last(db.questions[LastQuestion].testcase_groups) ELSE NULL

\* a Chapter is created and its reference appended to Course.chapters
AddChapter ==
    /\ Authoring
    /\ CourseExists /\ nextId <= MaxDocs
    /\ db' = [db EXCEPT !.chapters = Put(@, nextId, Chapter(<<>>)),
                        !.courses[TheCourse].chapters = Append(@, nextId)]
    /\ nextId' = nextId + 1
    /\ UNCHANGED <<lastDelete, notCascadeVars>>

\* a Lesson is created and its reference appended to Chapter.lessons
AddLesson ==
    /\ Authoring
    /\ LastChapter \in DOMAIN db.chapters /\ nextId <= MaxDocs
    /\ db' = [db EXCEPT !.lessons = Put(@, nextId, Lesson(<<>>)),
                        !.chapters[LastChapter].lessons = Append(@, nextId)]
    /\ nextId' = nextId + 1
    /\ UNCHANGED <<lastDelete, notCascadeVars>>

\* a Unit of type t is created with its payload document, and its reference
\* appended to Lesson.units
AddUnit(t) ==
    /\ Authoring
    /\ LastLesson \in DOMAIN db.lessons
    /\ nextId + (IF t = "text" THEN 0 ELSE 1) <= MaxDocs
    /\ LET u == nextId
           p == nextId + 1
           d1 == [db EXCEPT !.lessons[LastLesson].units = Append(@, u)]
       IN  db' =
             CASE t = "text" ->
                    [d1 EXCEPT !.units = Put(@, u, Unit(t, NULL, NULL, NULL))]
               [] t = "mcq" ->
                    [d1 EXCEPT !.units = Put(@, u, Unit(t, p, NULL, NULL)),
                               !.mcqs = Put(@, p, Payload)]
               [] t = "rearrange" ->
                    [d1 EXCEPT !.units = Put(@, u, Unit(t, NULL, p, NULL)),
                               !.rearranges = Put(@, p, Payload)]
               [] t = "coding" ->
                    [d1 EXCEPT !.units = Put(@, u, Unit(t, NULL, NULL, p)),
                               !.questions = Put(@, p, CourseQuestion(<<>>))]
    /\ nextId' = nextId + (IF t = "text" THEN 1 ELSE 2)
    /\ UNCHANGED <<lastDelete, notCascadeVars>>

\* a CourseQuestion is created on its own, not (yet) the payload of a Unit
AddQuestion ==
    /\ Authoring
    /\ nextId <= MaxDocs
    /\ db' = [db EXCEPT !.questions = Put(@, nextId, CourseQuestion(<<>>))]
    /\ nextId' = nextId + 1
    /\ UNCHANGED <<lastDelete, notCascadeVars>>

\* a TestCaseGroup is created and appended to CourseQuestion.testcase_groups
AddTestCaseGroup ==
    /\ Authoring
    /\ LastQuestion \in DOMAIN db.questions /\ nextId <= MaxDocs
    /\ db' = [db EXCEPT
                !.testcase_groups = Put(@, nextId, TestCaseGroup(LastQuestion, <<>>)),
                !.questions[LastQuestion].testcase_groups = Append(@, nextId)]
    /\ nextId' = nextId + 1
    /\ UNCHANGED <<lastDelete, notCascadeVars>>

\* a TestCase is created and appended to TestCaseGroup.cases
AddTestCase ==
    /\ Authoring
    /\ LastGroup \in DOMAIN db.testcase_groups /\ nextId <= MaxDocs
    /\ db' = [db EXCEPT !.testcases = Put(@, nextId, Payload),
                        !.testcase_groups[LastGroup].cases = Append(@, nextId)]
    /\ nextId' = nextId + 1
    /\ UNCHANGED <<lastDelete, notCascadeVars>>

\* an existing TestCase is referenced from one more TestCaseGroup
ShareTestCase(tc) ==
    /\ Authoring
    /\ LastGroup \in DOMAIN db.testcase_groups
    /\ tc \in DOMAIN db.testcases
    /\ tc \notin Range(db.testcase_groups[LastGroup].cases)
    /\ db' = [db EXCEPT !.testcase_groups[LastGroup].cases = Append(@, tc)]
    /\ UNCHANGED <<nextId, lastDelete, notCascadeVars>>

\* a request that deletes the Course: Course.delete()
DeleteCourse(F) ==
    /\ Authoring
    /\ CourseExists
    /\ LET r == CourseDelete(TheCourse, Ret(db, <<>>, FALSE), F)
       IN  /\ db' = r.db
           /\ lastDelete' = [op |-> "Course.delete", target |-> TheCourse,
                             use_transaction |-> FALSE, faults |-> F,
                             pre |-> db,
                             log |-> r.log, raised |-> r.raised]
    /\ UNCHANGED <<nextId, notCascadeVars>>

\* a request that deletes one CourseQuestion: CourseQuestion.delete()
DeleteQuestion(q, use_transaction, F) ==
    /\ Authoring
    /\ q \in DOMAIN db.questions
    /\ LET r == CourseQuestionDelete(q, use_transaction, Ret(db, <<>>, FALSE), F)
       IN  /\ db' = r.db
           /\ lastDelete' = [op |-> "CourseQuestion.delete", target |-> q,
                             use_transaction |-> use_transaction, faults |-> F,
                             pre |-> db,
                             log |-> r.log, raised |-> r.raised]
    /\ UNCHANGED <<nextId, notCascadeVars>>

LastUnit ==
    IF LastLesson \in DOMAIN db.lessons /\ db.lessons[LastLesson].units # <<>>
    THEN Last(db.lessons[LastLesson].units) ELSE NULL

\* the collection and the constructor of the payload a Unit field references
PayloadColl(field) ==
    CASE field = "mcq" -> "mcqs"
      [] field = "rearrange" -> "rearranges"
      [] field = "coding" -> "questions"

\* one more payload document is created and referenced from a field of the
\* last Unit that is still None
AddPayload(field) ==
    /\ Authoring
    /\ LastUnit \in DOMAIN db.units /\ nextId <= MaxDocs
    /\ db.units[LastUnit][field] = NULL
    /\ db' = [db EXCEPT
                ![PayloadColl(field)] =
                    Put(@, nextId, IF field = "coding" THEN CourseQuestion(<<>>)
                                   ELSE Payload),
                !.units[LastUnit][field] = nextId]
    /\ nextId' = nextId + 1
    /\ UNCHANGED <<lastDelete, notCascadeVars>>

\* what Unit u owns: its payload documents and what its question owns
OwnedByUnit(d, u) ==
    LET qs == {d.units[u].coding} \cap DOMAIN d.questions
        gs == RefsOf(d, "questions", "testcase_groups", qs) \cap DOMAIN d.testcase_groups
    IN  [EmptyOwned EXCEPT
           !.units = {u},
           !.mcqs = {d.units[u].mcq} \cap DOMAIN d.mcqs,
           !.rearranges = {d.units[u].rearrange} \cap DOMAIN d.rearranges,
           !.questions = qs, !.testcase_groups = gs,
           !.testcases = RefsOf(d, "testcase_groups", "cases", gs)
                           \cap DOMAIN d.testcases]

\* a request that deletes one Unit: Unit.delete()
DeleteUnit(u, F) ==
    /\ Authoring
    /\ u \in DOMAIN db.units
    /\ LET r == UnitDelete(u, Ret(db, <<>>, FALSE), F)
       IN  /\ db' = r.db
           /\ lastDelete' = [op |-> "Unit.delete", target |-> u,
                             use_transaction |-> FALSE, faults |-> F,
                             pre |-> db,
                             log |-> r.log, raised |-> r.raised]
    /\ UNCHANGED <<nextId, notCascadeVars>>

\* Units with up to three payloads are authored and one Unit is deleted
NextUnits ==
    \/ AddChapter
    \/ AddLesson
    \/ \E t \in UnitTypes : AddUnit(t)
    \/ \E field \in {"mcq", "rearrange", "coding"} : AddPayload(field)
    \/ AddTestCaseGroup
    \/ AddTestCase
    \/ \E u \in DOMAIN db.units :
          \E F \in FaultSets(OwnedByUnit(db, u)) : DeleteUnit(u, F)

\* a delete that removes the question before its groups and test cases
DeleteOrderQuestionFirst == <<"questions", "testcase_groups", "testcases">>

\* the bulk deletes of the non-transactional CourseQuestion.delete, in the
\* order of its statements
DeleteOrder == <<"testcases", "testcase_groups", "questions">>

\* the non-transactional CourseQuestion.delete up to its first store write:
\* the snapshot of the group ids and the collected, deduplicated TestCase ids
BeginQuestionDelete(q, F) ==
    LET group_ids == db.questions[q].testcase_groups
        groups == SetToSeq(Range(group_ids) \cap DOMAIN db.testcase_groups)
        tc_ids == Dedupe(Concat([i \in 1..Len(groups) |->
                                   db.testcase_groups[groups[i]].cases]))
        todo == IF group_ids = <<>> THEN <<"questions">>
                ELSE SelectSeq(DeleteOrder,
                               LAMBDA coll : coll # "testcases" \/ tc_ids # <<>>)
    IN
    /\ Authoring
    /\ running.status = "idle"
    /\ q \in DOMAIN db.questions
    /\ running' = [status |-> "running", q |-> q, group_ids |-> group_ids,
                   tc_ids |-> tc_ids, todo |-> todo]
    /\ lastDelete' = [op |-> "CourseQuestion.delete", target |-> q,
                      use_transaction |-> FALSE, faults |-> F,
                      pre |-> db, log |-> <<>>, raised |-> FALSE]
    /\ UNCHANGED <<db, nextId, updating, adding, sectionVars, configVars, studentVars>>

\* the next bulk delete of the CourseQuestion.delete in progress; when it
\* raises the method is left
StepQuestionDelete ==
    LET coll == Head(running.todo)
        ids == CASE coll = "testcases" -> running.tc_ids
                 [] coll = "testcase_groups" -> running.group_ids
                 [] coll = "questions" -> <<running.q>>
        r == StoreDelete(coll, ids, running.q, Ret(db, lastDelete.log, FALSE),
                         lastDelete.faults)
    IN
    /\ running.status = "running"
    /\ db' = r.db
    /\ lastDelete' = [lastDelete EXCEPT !.log = r.log, !.raised = r.raised]
    /\ running' = [running EXCEPT
                     !.todo = Tail(@),
                     !.status = IF r.raised THEN "raised"
                                ELSE IF Tail(running.todo) = <<>> THEN "returned"
                                ELSE "running"]
    /\ UNCHANGED <<nextId, updating, adding, sectionVars, configVars, studentVars>>

\* questions with groups and test cases are authored and one of them is
\* deleted, one store call at a time
NextQuestionSteps ==
    \/ AddQuestion
    \/ AddTestCaseGroup
    \/ AddTestCase
    \/ \E tc \in DOMAIN db.testcases : ShareTestCase(tc)
    \/ \E q \in DOMAIN db.questions :
          \E F \in FaultSets(OwnedByQuestion(db, q)) : BeginQuestionDelete(q, F)
    \/ StepQuestionDelete

NextCascade ==
    \/ AddChapter
    \/ AddLesson
    \/ \E t \in UnitTypes : AddUnit(t)
    \/ AddQuestion
    \/ AddTestCaseGroup
    \/ AddTestCase
    \/ \E tc \in DOMAIN db.testcases : ShareTestCase(tc)
    \/ \E F \in FaultSets(Owned(db, TheCourse)) : DeleteCourse(F)
    \/ \E q \in DOMAIN db.questions, tx \in BOOLEAN :
          \E F \in FaultSets(OwnedByQuestion(db, q)) : DeleteQuestion(q, tx, F)


\* ------------------------------------------------- course graph: the claims
\* what the request served deleted from: the documents its target owned
OwnedBefore ==
    IF lastDelete.op = "Course.delete"
    THEN Owned(lastDelete.pre, lastDelete.target)
    ELSE IF lastDelete.op = "CourseQuestion.delete"
         THEN OwnedByQuestion(lastDelete.pre, lastDelete.target)
         ELSE EmptyOwned

Occurrences(seq, x) == Cardinality({i \in DOMAIN seq : seq[i] = x})

\* C1: after Course.delete with no failing delete step, none of the Course,
\* its Chapters, Lessons, Units, payload documents, TestCaseGroups and
\* TestCases is left in the store.
C1_CascadeComplete ==
    (lastDelete.op = "Course.delete" /\ lastDelete.faults = {})
        => \A coll \in Collections : OwnedBefore[coll] \cap DOMAIN db[coll] = {}

\* a Course with a coding Unit whose question has a group with a test case,
\* deleted without a fault
C1_Witness ==
    /\ lastDelete.op = "Course.delete" /\ lastDelete.faults = {}
    /\ OwnedBefore.chapters # {} /\ OwnedBefore.lessons # {}
    /\ OwnedBefore.units # {} /\ OwnedBefore.questions # {}
    /\ OwnedBefore.testcase_groups # {} /\ OwnedBefore.testcases # {}

\* C2: CourseQuestion.delete of a question with at least one TestCaseGroup,
\* when it returns, has removed the question, every group of its list and
\* every TestCase those groups reference, and every such TestCase occurs
\* exactly once in the ids given to the TestCase delete.
C2_QuestionDelete ==
    (/\ lastDelete.op = "CourseQuestion.delete"
     /\ lastDelete.pre.questions[lastDelete.target].testcase_groups # <<>>
     /\ ~lastDelete.raised)
        => /\ lastDelete.target \notin DOMAIN db.questions
           /\ OwnedBefore.testcase_groups \cap DOMAIN db.testcase_groups = {}
           /\ OwnedBefore.testcases \cap DOMAIN db.testcases = {}
           /\ \A i \in DOMAIN lastDelete.log :
                 lastDelete.log[i].coll = "testcases"
                    => \A tc \in OwnedBefore.testcases :
                          Occurrences(lastDelete.log[i].ids, tc) = 1
           /\ OwnedBefore.testcases # {}
                 => \E i \in DOMAIN lastDelete.log :
                       lastDelete.log[i].coll = "testcases"

\* a question deleted whose two groups share a TestCase
C2_Witness ==
    /\ lastDelete.op = "CourseQuestion.delete" /\ ~lastDelete.raised
    /\ \E g1, g2 \in OwnedBefore.testcase_groups :
          /\ g1 # g2
          /\ Range(lastDelete.pre.testcase_groups[g1].cases)
               \cap Range(lastDelete.pre.testcase_groups[g2].cases) # {}

\* ----------------------------------------------- tests and sections: data
\* Test: its two datetimes and the two lists of Section references
Test(start_datetime, end_datetime, tr, op) ==
    [start_datetime |-> start_datetime, end_datetime |-> end_datetime,
     sections_time_restricted |-> tr, sections_open |-> op]

\* the ISO 8601 strings of a request that datetime.fromisoformat parses
IsoTimes == {"09:00", "10:00", "11:00", "12:00"}

\* a string that datetime.fromisoformat rejects
BadTime == "soon"

\* datetime.fromisoformat: the instant an ISO string names
FromIso(s) ==
    CASE s = "09:00" -> 1
      [] s = "10:00" -> 2
      [] s = "11:00" -> 3
      [] s = "12:00" -> 4

\* a Test.clean that never raises
TestCleanLax(test) == TRUE

\* Test.clean: TRUE when it does not raise
TestClean(test) == ~(test.start_datetime >= test.end_datetime)

Section(name, time_restricted) == [name |-> name, time_restricted |-> time_restricted]

\* a choice of list that ignores the flag
ListOfOpen(time_restricted) == "sections_open"

\* the list of a Test that holds the Sections with the given flag
ListOf(time_restricted) ==
    IF time_restricted THEN "sections_time_restricted" ELSE "sections_open"

\* the ids of the Tests a request can name
TestIds == {1, 2}

\* JSON values of a request body: names, booleans and null
SectionNames == {"n1", "n2"}
NoName == ""
JNull == "null"
JBool == {"true", "false"}

\* bool(x) of a JSON value
Bool(x) == x = "true"

ValidBody(data) ==
    /\ "name" \in DOMAIN data => data["name"] \in SectionNames \cup {JNull}
    /\ "time_restricted" \in DOMAIN data => data["time_restricted"] \in JBool \cup {JNull}

\* the request bodies of update_section: a dict with any of the keys
UpdateBodies ==
    {data \in UNION {[K -> {"n2"} \cup JBool \cup {JNull}] :
                        K \in SUBSET {"name", "time_restricted"}} : ValidBody(data)}

\* -------------------------------------- tests and sections: store updates
\* t.update(pull__<field>=section): every occurrence is removed
Pull(ts, t, field, s) ==
    IF t \in DOMAIN ts
    THEN [ts EXCEPT ![t][field] = SelectSeq(@, LAMBDA x : x # s)] ELSE ts

\* t.update(push__<field>=section)
Push(ts, t, field, s) ==
    IF t \in DOMAIN ts THEN [ts EXCEPT ![t][field] = Append(@, s)] ELSE ts

\* the store calls update_section makes for one Test; fault names the call
\* that raises
Fault(t, op) == [test |-> t, op |-> op]

NoFault == [test |-> NULL, op |-> "none"]

\* a loop body that pushes without pulling
MoveRefNoPull(ts, t, s, from, to, fault) ==
    IF fault \in {Fault(t, "pull"), Fault(t, "push")}
    THEN [tests |-> ts, raised |-> TRUE]
    ELSE [tests |-> Push(ts, t, to, s), raised |-> FALSE]

\* a loop body that catches the exception of a failed push and goes on
MoveRefQuiet(ts, t, s, from, to, fault) ==
    IF fault = Fault(t, "pull") THEN [tests |-> ts, raised |-> TRUE]
    ELSE IF fault = Fault(t, "push")
         THEN [tests |-> Pull(ts, t, from, s), raised |-> FALSE]
         ELSE [tests |-> Push(Pull(ts, t, from, s), t, to, s), raised |-> FALSE]

\* the body of the loop of update_section: pull from the old list, push onto
\* the new
MoveRef(ts, t, s, from, to, fault) ==
    IF fault = Fault(t, "pull") THEN [tests |-> ts, raised |-> TRUE]
    ELSE IF fault = Fault(t, "push")
         THEN [tests |-> Pull(ts, t, from, s), raised |-> TRUE]
         ELSE [tests |-> Push(Pull(ts, t, from, s), t, to, s), raised |-> FALSE]

RECURSIVE MoveRefsSwallow(_, _, _, _, _, _)
\* a loop that is left at the first exception and does not pass it on
MoveRefsSwallow(ts, todo, s, from, to, fault) ==
    IF todo = <<>> THEN [tests |-> ts, raised |-> FALSE]
    ELSE LET r == MoveRef(ts, Head(todo), s, from, to, fault)
         IN  IF r.raised THEN [tests |-> r.tests, raised |-> FALSE]
             ELSE MoveRefsSwallow(r.tests, Tail(todo), s, from, to, fault)

RECURSIVE MoveRefs(_, _, _, _, _, _)
\* for t in tests_with_old: ...; the first exception leaves the loop
MoveRefs(ts, todo, s, from, to, fault) ==
    IF todo = <<>> THEN [tests |-> ts, raised |-> FALSE]
    ELSE LET r == MoveRef(ts, Head(todo), s, from, to, fault)
         IN  IF r.raised THEN r
             ELSE MoveRefs(r.tests, Tail(todo), s, from, to, fault)

\* Test.objects(<field>=section): the Tests whose list holds the Section
TestsWith(ts, field, s) == SetToSeq({t \in DOMAIN ts : s \in Range(ts[t][field])})

\* the Tests that reference Section s in either list
Referencing(ts, s) ==
    {t \in DOMAIN ts : s \in Range(ts[t].sections_time_restricted)
                         \cup Range(ts[t].sections_open)}

\* the Section after the assignments of update_section
Assigned(section, data) ==
    LET s1 == IF "name" \in DOMAIN data /\ data["name"] # JNull
              THEN [section EXCEPT !.name = data["name"]] ELSE section
    IN  IF "time_restricted" \in DOMAIN data
        THEN [s1 EXCEPT !.time_restricted = Bool(data["time_restricted"])] ELSE s1

\* updated: whether the body held a field update_section accepts
Updated(data) ==
    \/ "name" \in DOMAIN data /\ data["name"] # JNull
    \/ "time_restricted" \in DOMAIN data

Response(op, sid, status, flipped, before) ==
    [op |-> op, section |-> sid, status |-> status, success |-> status \in {200, 201},
     flipped |-> flipped, before |-> before]

\* the request handlers that serve requests at the same time
Procs == {"p1", "p2"}

\* a handler that serves no update_section request. overlapped: a request of
\* this handler began while another was being served; failed: a request of
\* this handler was answered with an error
NotUpdating ==
    [pc |-> "idle", section_id |-> NULL, old |-> FALSE, new |-> FALSE,
     tests_with_old |-> <<>>, pulled |-> FALSE, status |-> 0,
     overlapped |-> FALSE, failed |-> FALSE]

\* a handler that serves no add_section_to_test request
NotAdding ==
    [pc |-> "idle", test_id |-> NULL, time_restricted |-> FALSE, list |-> <<>>,
     section |-> NULL, status |-> 0]

\* -------------------------------------------- tests and sections: actions
InitSections ==
    /\ tests = <<>>
    /\ sections = <<>>
    /\ nextSection = 1
    /\ lastReq = Response("none", NULL, 0, FALSE, {})
    /\ testReq = [op |-> "none", test_id |-> NULL, data |-> [key \in {} |-> ""]]
    /\ updating = [p \in Procs |-> NotUpdating]
    /\ adding = [p \in Procs |-> NotAdding]

\* an add_test or update_test request
TestRequest(op, test_id, data) == [op |-> op, test_id |-> test_id, data |-> data]

\* add_test: a Test is stored with both lists empty; "" is a datetime the
\* body does not hold or holds as null or as the empty string
AddTest(start_datetime, end_datetime) ==
    LET reply(status) == Response("add_test", NULL, status, FALSE, {})
        test == Test(FromIso(start_datetime), FromIso(end_datetime), <<>>, <<>>)
    IN
    /\ Cardinality(DOMAIN tests) < Cardinality(TestIds)
    /\ IF start_datetime = "" \/ end_datetime = ""
       THEN /\ lastReq' = reply(400)
            /\ UNCHANGED tests
       ELSE IF start_datetime \notin IsoTimes \/ end_datetime \notin IsoTimes
       THEN /\ lastReq' = reply(400)
            /\ UNCHANGED tests
       ELSE IF FromIso(start_datetime) >= FromIso(end_datetime)
       THEN /\ lastReq' = reply(400)
            /\ UNCHANGED tests
       ELSE IF ~TestClean(test)
       THEN /\ lastReq' = reply(400)
            /\ UNCHANGED tests
       ELSE /\ tests' = Put(tests, Cardinality(DOMAIN tests) + 1, test)
            /\ lastReq' = reply(201)
    /\ testReq' = TestRequest("add_test", NULL,
                              [start_datetime |-> start_datetime,
                               end_datetime |-> end_datetime])
    /\ UNCHANGED <<sections, nextSection, notSectionVars>>

\* the key is in the body and its value is not null
Given(data, key) == key \in DOMAIN data /\ data[key] # JNull

\* update_test: the datetimes the body gives are parsed and set, then save()
UpdateTest(test_id, data) ==
    LET reply(status) == Response("update_test", NULL, status, FALSE, {})
        set_start == Given(data, "start_datetime")
        set_end == Given(data, "end_datetime")
        updated == set_start \/ set_end \/ "test_name" \in DOMAIN data
        test == [tests[test_id] EXCEPT
                   !.start_datetime = IF set_start THEN FromIso(data["start_datetime"]) ELSE @,
                   !.end_datetime = IF set_end THEN FromIso(data["end_datetime"]) ELSE @]
    IN
    /\ IF test_id \notin DOMAIN tests
       THEN /\ lastReq' = reply(404)
            /\ UNCHANGED tests
       ELSE IF set_start /\ data["start_datetime"] \notin IsoTimes
       THEN /\ lastReq' = reply(400)
            /\ UNCHANGED tests
       ELSE IF set_end /\ data["end_datetime"] \notin IsoTimes
       THEN /\ lastReq' = reply(400)
            /\ UNCHANGED tests
       ELSE IF ~updated
       THEN /\ lastReq' = reply(400)
            /\ UNCHANGED tests
       ELSE IF ~TestClean(test)
       THEN /\ lastReq' = reply(400)
            /\ UNCHANGED tests
       ELSE /\ tests' = [tests EXCEPT ![test_id] = test]
            /\ lastReq' = reply(200)
    /\ testReq' = TestRequest("update_test", test_id, data)
    /\ UNCHANGED <<sections, nextSection, notSectionVars>>

\* an existing Section is attached to one more Test, on the list of its flag
AttachSection(t, s) ==
    /\ t \in DOMAIN tests /\ s \in DOMAIN sections
    /\ t \notin Referencing(tests, s)
    /\ tests' = Push(tests, t, ListOf(sections[s].time_restricted), s)
    /\ lastReq' = Response("attach", s, 200, FALSE, {})
    /\ UNCHANGED <<sections, nextSection, testReq, notSectionVars>>

\* POST /tests/<test_id>/sections; fault names the store call that raises:
\* "section_save", "test_save", or "rollback" (test.save and section.delete)
AddSectionToTest(test_id, name, time_restricted, fault) ==
    LET sid == nextSection
        reply(status) == Response("add_section_to_test", sid, status, FALSE, {})
    IN
    /\ nextSection <= MaxSections
    /\ IF name = NoName
       THEN /\ lastReq' = reply(400)
            /\ UNCHANGED <<tests, sections, nextSection>>
       ELSE IF test_id \notin DOMAIN tests
       THEN /\ lastReq' = reply(404)
            /\ UNCHANGED <<tests, sections, nextSection>>
       ELSE IF fault = "section_save"
       THEN /\ lastReq' = reply(400)
            /\ UNCHANGED <<tests, sections, nextSection>>
       ELSE IF fault = "test_save"
       \* the created Section is deleted again
       THEN /\ lastReq' = reply(500)
            /\ nextSection' = nextSection + 1
            /\ UNCHANGED <<tests, sections>>
       ELSE IF fault = "rollback"
       \* section.delete() raised as well: the Section stays, unattached
       THEN /\ lastReq' = reply(500)
            /\ sections' = Put(sections, sid, Section(name, Bool(time_restricted)))
            /\ nextSection' = nextSection + 1
            /\ UNCHANGED tests
       ELSE /\ lastReq' = reply(201)
            /\ sections' = Put(sections, sid, Section(name, Bool(time_restricted)))
            /\ tests' = Push(tests, test_id, ListOf(Bool(time_restricted)), sid)
            /\ nextSection' = nextSection + 1
    /\ UNCHANGED <<testReq, notSectionVars>>

\* an update_section that moves the references before it saves the Section
UpdateSectionMoveFirst(section_id, data, fault) ==
    LET old == sections[section_id]
        new == Assigned(old, data)
        flipped == old.time_restricted # new.time_restricted
        from == ListOf(old.time_restricted)
        to == ListOf(new.time_restricted)
        moved == MoveRefs(tests, TestsWith(tests, from, section_id),
                          section_id, from, to, fault)
        reply(status) == Response("update_section", section_id, status, flipped,
                                  IF section_id \in DOMAIN sections
                                  THEN Referencing(tests, section_id) ELSE {})
    IN
    /\ IF section_id \notin DOMAIN sections
       THEN /\ lastReq' = Response("update_section", section_id, 404, FALSE, {})
            /\ UNCHANGED <<tests, sections>>
       ELSE IF ~Updated(data)
       THEN /\ lastReq' = reply(400)
            /\ UNCHANGED <<tests, sections>>
       ELSE IF flipped /\ fault = Fault(NULL, "query")
       THEN /\ lastReq' = reply(500)
            /\ UNCHANGED <<tests, sections>>
       ELSE /\ tests' = IF flipped THEN moved.tests ELSE tests
            /\ IF flipped /\ moved.raised
               THEN /\ lastReq' = reply(500)
                    /\ UNCHANGED sections
               ELSE IF fault = Fault(NULL, "save")
               THEN /\ lastReq' = reply(400)
                    /\ UNCHANGED sections
               ELSE /\ sections' = [sections EXCEPT ![section_id] = new]
                    /\ lastReq' = reply(200)
    /\ UNCHANGED <<nextSection, testReq, notSectionVars>>

\* PUT /tests/sections/<section_id>; fault names the store call that raises:
\* Fault(NULL, "save"), Fault(NULL, "query"), Fault(t, "pull"), Fault(t, "push")
UpdateSection(section_id, data, fault) ==
    LET old == sections[section_id]
        new == Assigned(old, data)
        flipped == old.time_restricted # new.time_restricted
        from == ListOf(old.time_restricted)
        to == ListOf(new.time_restricted)
        moved == MoveRefs(tests, TestsWith(tests, from, section_id),
                          section_id, from, to, fault)
        reply(status) == Response("update_section", section_id, status, flipped,
                                  IF section_id \in DOMAIN sections
                                  THEN Referencing(tests, section_id) ELSE {})
    IN
    /\ IF section_id \notin DOMAIN sections
       THEN /\ lastReq' = Response("update_section", section_id, 404, FALSE, {})
            /\ UNCHANGED <<tests, sections>>
       ELSE IF ~Updated(data)
       THEN /\ lastReq' = reply(400)
            /\ UNCHANGED <<tests, sections>>
       ELSE IF fault = Fault(NULL, "save")
       THEN /\ lastReq' = reply(400)
            /\ UNCHANGED <<tests, sections>>
       ELSE /\ sections' = [sections EXCEPT ![section_id] = new]
            /\ IF ~flipped
               THEN /\ lastReq' = reply(200)
                    /\ UNCHANGED tests
               ELSE IF fault = Fault(NULL, "query")
               THEN /\ lastReq' = reply(500)
                    /\ UNCHANGED tests
               ELSE /\ tests' = moved.tests
                    /\ lastReq' = reply(IF moved.raised THEN 500 ELSE 200)
    /\ UNCHANGED <<nextSection, testReq, notSectionVars>>

\* the faults of one update_section request: one of its store calls raises
UpdateFaults(section_id) ==
    {NoFault, Fault(NULL, "save"), Fault(NULL, "query")}
    \cup {Fault(t, op) : t \in Referencing(tests, section_id), op \in {"pull", "push"}}

\* the bodies of update_test: any of its keys, a datetime null, malformed
\* or an ISO string
TestBodies ==
    LET values(key) == IF key = "test_name" THEN {"n1"}
                       ELSE IsoTimes \cup {BadTime, JNull}
    IN  UNION {{data \in [keys -> IsoTimes \cup {BadTime, JNull, "n1"}] :
                  \A key \in keys : data[key] \in values(key)} :
               keys \in SUBSET {"start_datetime", "end_datetime", "test_name"}}

\* the add_test and update_test requests
NextTests ==
    \/ \E start_datetime, end_datetime \in IsoTimes \cup {BadTime, ""} :
          AddTest(start_datetime, end_datetime)
    \/ \E test_id \in TestIds, data \in TestBodies : UpdateTest(test_id, data)

NextSections ==
    \/ AddTest("09:00", "10:00")
    \/ \E t \in DOMAIN tests, s \in DOMAIN sections : AttachSection(t, s)
    \/ \E test_id \in TestIds, name \in {"n1", NoName},
          time_restricted \in JBool \cup {JNull},
          fault \in {"none", "section_save", "test_save", "rollback"} :
          AddSectionToTest(test_id, name, time_restricted, fault)
    \/ \E section_id \in 1..MaxSections, data \in UpdateBodies :
          \E fault \in UpdateFaults(section_id) : UpdateSection(section_id, data, fault)

\* ------------------------------------------ tests and sections: the claims
\* C3: after any sequence of add_section_to_test and update_section requests
\* no Section is referenced from both lists of one Test.
C3_ListsDisjoint ==
    \A t \in DOMAIN tests :
        Range(tests[t].sections_time_restricted) \cap Range(tests[t].sections_open) = {}

\* update_section has moved a Section of some Test to the open list
C3_Witness ==
    /\ lastReq.op = "update_section" /\ lastReq.flipped
    /\ \E t \in lastReq.before : lastReq.section \in Range(tests[t].sections_open)

\* C4: when update_section flips the flag and returns success, every Test
\* that referenced the Section before the request holds it exactly once in
\* the list of the new flag value and not in the other list.
C4_FlipMovesAll ==
    (lastReq.op = "update_section" /\ lastReq.success /\ lastReq.flipped)
        => \A t \in lastReq.before :
              LET flag == sections[lastReq.section].time_restricted
              IN  /\ Occurrences(tests[t][ListOf(flag)], lastReq.section) = 1
                  /\ lastReq.section \notin Range(tests[t][ListOf(~flag)])

\* a successful flip of a Section that two Tests referenced
C4_Witness ==
    /\ lastReq.op = "update_section" /\ lastReq.success /\ lastReq.flipped
    /\ Cardinality(lastReq.before) >= 2

RECURSIVE SeqsUpTo(_, _)
\* the sequences over S of length at most n
SeqsUpTo(S, n) ==
    IF n = 0 THEN {<<>>}
    ELSE LET shorter == SeqsUpTo(S, n - 1)
         IN  shorter \cup {Append(b, x) : b \in shorter, x \in S}

\* ------------------------------------------------ config aggregator: data
\* the question kinds, each with its own Config collection
Kinds == {"mcq", "rearrange"}

\* CourseMCQConfig() / RearrangeConfig(): every list empty
NewConfig ==
    [difficulty_levels |-> <<>>, topics |-> <<>>, subtopics |-> <<>>, tags |-> <<>>]

CourseMCQ(is_multiple, correct_options, difficulty_level, topic, subtopic, tags) ==
    [is_multiple |-> is_multiple, correct_options |-> correct_options,
     difficulty_level |-> difficulty_level, topic |-> topic,
     subtopic |-> subtopic, tags |-> tags]

Rearrange(items, correct_order, difficulty_level, topic, subtopic, tags) ==
    [items |-> items, correct_order |-> correct_order,
     difficulty_level |-> difficulty_level, topic |-> topic,
     subtopic |-> subtopic, tags |-> tags]

\* the CourseMCQ documents a request saves
MCQInputs ==
    {CourseMCQ(FALSE, <<"o1">>, "Easy", "t1", "s1", <<"g1">>),
     CourseMCQ(FALSE, <<"o1">>, "Medium", "t2", "", <<>>),
     CourseMCQ(TRUE, <<"o1", "o2">>, "Hard", "", "s1", <<"g1", "g1">>),
     CourseMCQ(FALSE, <<"o2">>, "Easy", "t1", "", <<"">>),
     CourseMCQ(FALSE, <<"o1", "o2">>, "Easy", "t1", "s1", <<"g1">>)}

\* the Rearrange documents a request saves
RearrangeInputs ==
    {Rearrange(<<"i1", "i2">>, <<"i2", "i1">>, "Easy", "t1", "s1", <<"g1">>),
     Rearrange(<<"i1">>, <<"i1">>, "Medium", "t2", "", <<"", "g1">>),
     Rearrange(<<"i1", "i2">>, <<"i1", "i1">>, "Hard", "t1", "s1", <<>>)}

Inputs(kind) == IF kind = "mcq" THEN MCQInputs ELSE RearrangeInputs

\* the item ids of a Rearrange question, and the ids a correct_order can name
ItemIds == {"a", "b", "c"}

OrderIds == ItemIds \cup {"d"}

\* no Rearrange question was built yet
NoQuestion == Rearrange(<<>>, <<>>, "", "", "", <<>>)

\* ------------------------------------------- config aggregator: save()
\* a clean() that never raises
CourseMCQCleanLax(q) == TRUE

\* CourseMCQ.clean: TRUE when it does not raise
CourseMCQClean(q) == ~(~q.is_multiple /\ Len(q.correct_options) > 1)

\* a clean() without its last test
RearrangeCleanNoDuplicateTest(q) ==
    /\ q.items # <<>>
    /\ Len(q.correct_order) = Len(q.items)
    /\ Range(q.correct_order) = Range(q.items)

\* Rearrange.clean: TRUE when it does not raise
RearrangeClean(q) ==
    /\ q.items # <<>>
    /\ Len(q.correct_order) = Len(q.items)
    /\ Range(q.correct_order) = Range(q.items)
    /\ Len(q.correct_order) = Cardinality(Range(q.correct_order))

Clean(kind, q) == IF kind = "mcq" THEN CourseMCQClean(q) ELSE RearrangeClean(q)

\* truth value of a string
Truthy(v) == v # ""

\* an append that forgets the values the list held
AppendNewReset(list, v) == IF v \in Range(list) THEN list ELSE <<v>>

\* if v not in list: list.append(v)
AppendNew(list, v) == IF v \in Range(list) THEN list ELSE Append(list, v)

RECURSIVE AppendTags(_, _)
\* for tag in self.tags or []: if tag not in config.tags: config.tags.append(tag)
AppendTags(list, tags) ==
    IF tags = <<>> THEN list
    ELSE AppendTags(AppendNew(list, Head(tags)), Tail(tags))

\* the Config after the appends of save(); CourseMCQ.save appends the
\* difficulty level without testing its truth value
Aggregate(kind, config, q) ==
    [difficulty_levels |->
        IF kind = "mcq" \/ Truthy(q.difficulty_level)
        THEN AppendNew(config.difficulty_levels, q.difficulty_level)
        ELSE config.difficulty_levels,
     topics |->
        IF Truthy(q.topic) THEN AppendNew(config.topics, q.topic) ELSE config.topics,
     subtopics |->
        IF Truthy(q.subtopic) THEN AppendNew(config.subtopics, q.subtopic)
        ELSE config.subtopics,
     tags |-> AppendTags(config.tags, q.tags)]

\* config = Config.objects.first(); if not config: config = Config()
First(cfgs) ==
    IF cfgs = <<>> THEN [found |-> FALSE, doc |-> NewConfig]
    ELSE [found |-> TRUE, doc |-> cfgs[1]]

\* config.save(): a new document is inserted, a loaded one has its changed
\* lists written
ConfigSave(cfgs, loaded, new) ==
    LET written(f) == IF new[f] # loaded.doc[f] THEN new[f] ELSE cfgs[1][f]
    IN  IF ~loaded.found THEN Append(cfgs, new)
        ELSE [cfgs EXCEPT ![1] =
                [difficulty_levels |-> written("difficulty_levels"),
                 topics |-> written("topics"),
                 subtopics |-> written("subtopics"),
                 tags |-> written("tags")]]

\* the values a question contributes to the lists of its Config
Values(q) ==
    [difficulty_levels |-> {q.difficulty_level}, topics |-> {q.topic},
     subtopics |-> {q.subtopic}, tags |-> Range(q.tags)]

NoValues == [difficulty_levels |-> {}, topics |-> {}, subtopics |-> {}, tags |-> {}]

Merge(a, b) ==
    [difficulty_levels |-> a.difficulty_levels \cup b.difficulty_levels,
     topics |-> a.topics \cup b.topics,
     subtopics |-> a.subtopics \cup b.subtopics,
     tags |-> a.tags \cup b.tags]

SaveResult(op, kind, id, ok, resave, unchanged) ==
    [op |-> op, kind |-> kind, id |-> id, ok |-> ok, resave |-> resave,
     unchanged |-> unchanged]

Idle == [pc |-> "idle", kind |-> "mcq", id |-> NULL, q |-> NULL, resave |-> FALSE,
         loaded |-> First(<<>>)]

\* ---------------------------------------------- config aggregator: actions
InitConfig ==
    /\ docs = [k \in Kinds |-> <<>>]
    /\ configs = [k \in Kinds |-> <<>>]
    /\ nextDoc = 1
    /\ nSaves = 0
    /\ saved = [k \in Kinds |-> NoValues]
    /\ lastSave = SaveResult("none", "mcq", NULL, FALSE, FALSE, TRUE)
    /\ proc = [p \in Procs |-> Idle]
    /\ given = NoQuestion

\* the question is new or is a stored question that is edited
Saveable(kind, id) == id \in DOMAIN docs[kind] \cup {nextDoc}

Resave(kind, id, q) ==
    /\ id \in DOMAIN docs[kind]
    /\ docs[kind][id] = q

\* clean(), the save of the question and the update of the Config
SaveCore(kind, id, q) ==
    LET loaded == First(configs[kind])
        written == ConfigSave(configs[kind], loaded, Aggregate(kind, loaded.doc, q))
    IN
    /\ nSaves < MaxSaves
    /\ Saveable(kind, id)
    /\ IF ~Clean(kind, q)
       THEN /\ lastSave' = SaveResult("save", kind, id, FALSE, FALSE, TRUE)
            /\ UNCHANGED <<docs, configs, nextDoc, nSaves, saved>>
       ELSE /\ docs' = [docs EXCEPT ![kind] = Put(@, id, q)]
            /\ configs' = [configs EXCEPT ![kind] = written]
            /\ nextDoc' = IF id = nextDoc THEN nextDoc + 1 ELSE nextDoc
            /\ nSaves' = nSaves + 1
            /\ saved' = [saved EXCEPT ![kind] = Merge(@, Values(q))]
            /\ lastSave' = SaveResult("save", kind, id, TRUE, Resave(kind, id, q),
                                      written = configs[kind])
    /\ UNCHANGED <<proc, notConfigVars>>

\* save() of a question, served alone
SaveQuestion(kind, id, q) ==
    /\ SaveCore(kind, id, q)
    /\ UNCHANGED given

\* save() of the first Rearrange question, built from any items and any
\* correct_order
SaveGiven(items, correct_order) ==
    LET q == Rearrange(items, correct_order, "Easy", "t1", "", <<>>)
    IN  /\ docs["rearrange"] = <<>>
        /\ given = NoQuestion
        /\ SaveCore("rearrange", nextDoc, q)
        /\ given' = q

\* delete() of a question: the Config is not touched
DeleteStored(kind, id) ==
    /\ id \in DOMAIN docs[kind]
    /\ docs' = [docs EXCEPT ![kind] = Remove(@, {id})]
    /\ lastSave' = SaveResult("delete", kind, id, TRUE, FALSE, TRUE)
    /\ UNCHANGED <<configs, nextDoc, nSaves, saved, proc, given, notConfigVars>>

\* save() of request p, first part: clean() and the save of the question
PersistQuestion(p, kind, id, q) ==
    /\ proc[p].pc = "idle"
    /\ nSaves < MaxSaves
    /\ Saveable(kind, id)
    /\ IF ~Clean(kind, q)
       THEN /\ lastSave' = SaveResult("save", kind, id, FALSE, FALSE, TRUE)
            /\ UNCHANGED <<docs, nextDoc, nSaves, proc>>
       ELSE /\ docs' = [docs EXCEPT ![kind] = Put(@, id, q)]
            /\ nextDoc' = IF id = nextDoc THEN nextDoc + 1 ELSE nextDoc
            /\ nSaves' = nSaves + 1
            /\ proc' = [proc EXCEPT ![p] =
                          [pc |-> "persisted", kind |-> kind, id |-> id, q |-> q,
                           resave |-> Resave(kind, id, q), loaded |-> First(<<>>)]]
            /\ UNCHANGED lastSave
    /\ UNCHANGED <<configs, saved, given, notConfigVars>>

\* save() of request p, second part: the Config is read
LoadConfig(p) ==
    /\ proc[p].pc = "persisted"
    /\ proc' = [proc EXCEPT ![p].pc = "loaded",
                            ![p].loaded = First(configs[proc[p].kind])]
    /\ UNCHANGED <<docs, configs, nextDoc, nSaves, saved, lastSave, given, notConfigVars>>

\* save() of request p, last part: the appends and config.save()
SaveConfig(p) ==
    LET kind == proc[p].kind
        loaded == proc[p].loaded
        written == ConfigSave(configs[kind], loaded,
                              Aggregate(kind, loaded.doc, proc[p].q))
    IN
    /\ proc[p].pc = "loaded"
    /\ configs' = [configs EXCEPT ![kind] = written]
    /\ saved' = [saved EXCEPT ![kind] = Merge(@, Values(proc[p].q))]
    /\ lastSave' = SaveResult("save", kind, proc[p].id, TRUE, proc[p].resave,
                              written = configs[kind])
    /\ proc' = [proc EXCEPT ![p] = Idle]
    /\ UNCHANGED <<docs, nextDoc, nSaves, given, notConfigVars>>

\* the saves and deletes of questions, one request at a time
NextConfig ==
    \/ \E kind \in Kinds, id \in 1..MaxSaves :
          \E q \in Inputs(kind) : SaveQuestion(kind, id, q)
    \/ \E kind \in Kinds, id \in 1..MaxSaves : DeleteStored(kind, id)

\* the save of one Rearrange question with any items and correct_order
NextRearrange ==
    /\ given = NoQuestion
    /\ \E items \in SeqsUpTo(ItemIds, MaxItems), correct_order \in SeqsUpTo(OrderIds, MaxItems) :
          SaveGiven(items, correct_order)

\* the saves of questions by requests that run at the same time
NextConfigConc ==
    \/ \E p \in Procs, kind \in Kinds, id \in 1..MaxSaves :
          \E q \in Inputs(kind) : PersistQuestion(p, kind, id, q)
    \/ \E p \in Procs : LoadConfig(p)
    \/ \E p \in Procs : SaveConfig(p)

\* ------------------------------------------- config aggregator: the claims
\* the lists of a Config document
ConfigFields == {"difficulty_levels", "topics", "subtopics", "tags"}

\* C5: the Config lists only grow: a value held by a list of a Config
\* document is held by that list after every save, edit and delete.
C5_ConfigGrows ==
    [][\A k \in Kinds : \A i \in DOMAIN configs[k] :
          /\ i \in DOMAIN configs'[k]
          /\ \A f \in ConfigFields : Range(configs[k][i][f]) \subseteq Range(configs'[k][i][f])]_vars

\* a question was deleted and the last request is an edit after which the
\* Config holds a topic that no stored question has
C5_Witness ==
    /\ lastSave.op = "save" /\ lastSave.ok
    /\ \E k \in Kinds :
          /\ configs[k] # <<>>
          /\ \E id \in 1..(nextDoc - 1) : id \notin DOMAIN docs[k]
          /\ lastSave.kind = k /\ lastSave.id \in DOMAIN docs[k]
          /\ \E v \in Range(configs[k][1].topics) :
                \A id \in DOMAIN docs[k] : docs[k][id].topic # v

\* C6: after successful saves served one at a time every Config list has no
\* duplicate and holds exactly the non-empty values of the questions saved so
\* far, and a re-save of a question with the same values leaves the Config
\* unchanged.
C6_ConfigExact ==
    /\ \A k \in Kinds : \A i \in DOMAIN configs[k] : \A f \in ConfigFields :
          /\ Len(configs[k][i][f]) = Cardinality(Range(configs[k][i][f]))
          /\ Range(configs[k][i][f]) = saved[k][f] \ {""}
    /\ \A k \in Kinds : configs[k] = <<>> => saved[k] = NoValues
    /\ lastSave.resave => lastSave.unchanged

\* C7: at most one Config document per kind exists, also while the first
\* saves of two questions of the kind interleave.
C7_SingleConfig == \A k \in Kinds : Len(configs[k]) <= 1

\* -------------------------------------------------- bulk students: data
\* the keys of an input record and of a stored Student that the model follows
StudentFields == {"college", "name", "email", "usn", "city", "password_hash"}

\* allowed_fields of add_bulk_students
AddAllowed ==
    {"name", "gender", "date_of_birth", "email", "phone_number", "usn",
     "enrollment_number", "branch", "year_of_study", "semester", "cgpa", "address",
     "city", "state", "pincode", "guardian_name", "guardian_contact"}

\* allowed_fields of upsert_bulk_students
UpsertAllowed == AddAllowed \cup {"is_active", "first_time_login"}

VALID_PRIMARYS == {"email", "usn", "enrollment_number"}

Student(college, name, email, usn, city, password_hash) ==
    [college |-> college, name |-> name, email |-> email, usn |-> usn,
     city |-> city, password_hash |-> password_hash]

\* an item of the request's list: a JSON object with its keys, or another
\* JSON value
Dict(fields) == [dict |-> TRUE, fields |-> fields]
NonDict == [dict |-> FALSE, fields |-> <<>>]

\* the items a batch is made of
Items ==
    {NonDict,
     Dict(<<>>),
     Dict([email |-> "a@x", city |-> "blr"]),
     Dict([email |-> "a@x", name |-> JNull, city |-> "blr", password_hash |-> "x"]),
     Dict([email |-> "a@x"]),
     Dict([name |-> "n2", email |-> "b@x", usn |-> "u2"]),
     Dict([full_name |-> "n4", email |-> "d@x"]),
     Dict([email |-> "z@x", city |-> "blr"]),
     Dict([name |-> "n3", email |-> "z@x", usn |-> "u1", city |-> JNull])}

\* the store calls of one record that can raise, and the mail send
Faults == {"none", "query", "update", "first", "save", "mail"}

\* ------------------------------------------- bulk students: one record
Keys(item) == DOMAIN item.fields

\* item.get(key)
Get(item, key) == IF key \in Keys(item) THEN item.fields[key] ELSE JNull

\* not value
Falsy(v) == v \in {JNull, ""}

\* the outcome of one record: the store after it, the result entry, the
\* counter it increments, the Students the query matched, the Student it
\* inserted, and whether an exception left the loop body
Outcome(store, status, student_id, counted, matched, persisted, raised) ==
    [students |-> store, status |-> status, student_id |-> student_id,
     counted |-> counted, matched |-> matched, persisted |-> persisted,
     raised |-> raised]

\* an except clause that lets the exception leave the loop
FailedUncaught(store, matched, persisted) ==
    Outcome(store, "error", NULL, "none", matched, persisted, TRUE)

\* the except clauses: the exception becomes an error entry
Failed(store, matched, persisted) ==
    Outcome(store, "error", NULL, "none", matched, persisted, FALSE)

\* a skip branch that counts the record as updated
SkippedCounted(store, matched) ==
    Outcome(store, "skipped", NULL, "updated", matched, NULL, FALSE)

\* the skip branches: a skipped entry, no store call, no counter
Skipped(store, matched) == Outcome(store, "skipped", NULL, "none", matched, NULL, FALSE)

\* a collection without unique indexes
UniqueNone(store) == TRUE

\* the unique indexes on email and on usn (sparse)
UniqueOk(store) ==
    \A i, j \in DOMAIN store :
        i # j => /\ store[i].email # store[j].email
                 /\ store[i].usn = JNull \/ store[i].usn # store[j].usn

\* student_kwargs: the college and the allow-listed keys present with a
\* non-null value
Kwargs(item, allowed, college) ==
    [k \in {"college"} \cup {a \in allowed : a \in Keys(item) /\ item.fields[a] # JNull}
        |-> IF k = "college" THEN college ELSE item.fields[k]]

\* Student(**student_kwargs) after set_password
NewStudent(kwargs) ==
    [f \in StudentFields |->
        IF f = "password_hash" THEN "hash"
        ELSE IF f \in DOMAIN kwargs THEN kwargs[f] ELSE JNull]

\* a notification failure that undoes the creation
CreatedRollback(store, id, fault) ==
    IF fault = "mail"
    THEN Outcome(Remove(store, {id}), "error", NULL, "none", {}, id, FALSE)
    ELSE Outcome(store, "created", id, "created", {}, id, FALSE)

\* a notification failure that is not counted as a creation
CreatedUncounted(store, id, fault) ==
    IF fault = "mail"
    THEN Outcome(store, "created_email_failed", id, "none", {}, id, FALSE)
    ELSE Outcome(store, "created", id, "created", {}, id, FALSE)

\* the inner try around the mail send, after student.save()
Created(store, id, fault) ==
    IF fault = "mail"
    THEN Outcome(store, "created_email_failed", id, "created", {}, id, FALSE)
    ELSE Outcome(store, "created", id, "created", {}, id, FALSE)

\* the creation of a Student: save (validation, unique indexes), then mail
Create(store, kwargs, fault) ==
    LET id == Cardinality(DOMAIN store) + 1
        inserted == Put(store, id, NewStudent(kwargs))
    IN  IF fault = "save" THEN Failed(store, {}, NULL)
        ELSE IF NewStudent(kwargs).name = JNull \/ NewStudent(kwargs).email = JNull
        THEN Failed(store, {}, NULL)
        ELSE IF ~UniqueOk(inserted) THEN Failed(store, {}, NULL)
        ELSE Created(inserted, id, fault)

\* the loop body of add_bulk_students
AddRecord(store, item, college, fault) ==
    LET name == IF ~Falsy(Get(item, "name")) THEN Get(item, "name")
                ELSE IF ~Falsy(Get(item, "first_name")) THEN Get(item, "first_name")
                ELSE Get(item, "full_name")
        email == Get(item, "email")
    IN  IF ~item.dict THEN Failed(store, {}, NULL)
        ELSE IF Falsy(name) \/ Falsy(email) THEN Skipped(store, {})
        ELSE Create(store, Kwargs(item, AddAllowed, college), fault)

\* an update dict that takes every allow-listed key of the record
SetUpdatesAll(item, primary_field) ==
    [k \in {a \in UpsertAllowed : a \in Keys(item)} |-> item.fields[k]]

\* set_updates: the allow-listed keys other than the primary field that are
\* present with a non-null value
SetUpdates(item, primary_field) ==
    [k \in {a \in UpsertAllowed \ {primary_field} :
                a \in Keys(item) /\ item.fields[a] # JNull} |-> item.fields[k]]

\* student_qs.update(**set_updates) on the matched Students
Apply(store, ids, set_updates) ==
    [id \in DOMAIN store |->
        IF id \in ids
        THEN [f \in StudentFields |->
                IF f \in DOMAIN set_updates THEN set_updates[f] ELSE store[id][f]]
        ELSE store[id]]

\* a query on the primary field alone
MatchedAnyCollege(store, primary_field, primary_value, college) ==
    {id \in DOMAIN store :
        /\ primary_field \in StudentFields
        /\ store[id][primary_field] = primary_value}

\* Student.objects(**{primary_field: primary_value, "college": college})
Matched(store, primary_field, primary_value, college) ==
    {id \in DOMAIN store :
        /\ primary_field \in StudentFields
        /\ store[id][primary_field] = primary_value
        /\ store[id].college = college}

\* the loop body of upsert_bulk_students
UpsertRecord(store, item, primary_field, college, fault) ==
    LET primary_value == Get(item, primary_field)
        set_updates == SetUpdates(item, primary_field)
        matched == Matched(store, primary_field, primary_value, college)
        updated == Apply(store, matched, set_updates)
        name == IF ~Falsy(Get(item, "name")) THEN Get(item, "name")
                ELSE IF ~Falsy(Get(item, "first_name")) THEN Get(item, "first_name")
                ELSE Get(item, "full_name")
        email == Get(item, "email")
    IN  IF ~item.dict THEN Failed(store, {}, NULL)
        ELSE IF Falsy(primary_value) THEN Skipped(store, {})
        ELSE IF fault = "query" THEN Failed(store, {}, NULL)
        ELSE IF matched # {}
        THEN IF DOMAIN set_updates = {} THEN Skipped(store, matched)
             ELSE IF fault = "update" THEN Failed(store, matched, NULL)
             ELSE IF ~UniqueOk(updated) THEN Failed(store, matched, NULL)
             ELSE IF fault = "first" THEN Failed(updated, matched, NULL)
             ELSE Outcome(updated, "updated", CHOOSE id \in matched : TRUE,
                          "updated", matched, NULL, FALSE)
        ELSE IF Falsy(name) \/ Falsy(email) THEN Skipped(store, {})
        ELSE Create(store, Kwargs(item, UpsertAllowed, college), fault)

Request(route, primary_field, batch, college) ==
    [route |-> route, primary_field |-> primary_field, batch |-> batch,
     college |-> college]

\* what happened to one record: the fault, the store before and after, the
\* Students matched and the Student inserted
Trail(fault, before, out) ==
    [fault |-> fault, before |-> before, after |-> out.students,
     matched |-> out.matched, persisted |-> out.persisted]

\* ---------------------------------------------- bulk students: actions
InitStudents ==
    /\ students = <<Student("c1", "n1", "a@x", "u1", "mys", "h1"),
                    Student("c2", "n9", "z@x", JNull, JNull, "h9")>>
    /\ req = Request("none", "email", <<>>, "c1")
    /\ pcBulk = "idle"
    /\ httpStatus = 0
    /\ idx = 0
    /\ results = <<>>
    /\ created_count = 0
    /\ updated_count = 0
    /\ trail = <<>>

\* the request arrives: the checks before the loop
BulkRequest(route, primary_field, batch) ==
    /\ pcBulk = "idle"
    /\ req' = Request(route, primary_field, batch, "c1")
    /\ IF route = "upsert" /\ primary_field \notin VALID_PRIMARYS
       THEN pcBulk' = "done" /\ httpStatus' = 400
       ELSE IF batch = <<>>
       THEN pcBulk' = "done" /\ httpStatus' = 400
       ELSE pcBulk' = "loop" /\ httpStatus' = 0
    /\ UNCHANGED <<students, idx, results, created_count, updated_count, trail,
                   notStudentVars>>

\* one iteration of the loop over the batch
ProcessRecord(fault) ==
    LET item == req.batch[idx + 1]
        body(f) == IF req.route = "add"
                   THEN AddRecord(students, item, req.college, f)
                   ELSE UpsertRecord(students, item, req.primary_field, req.college, f)
        out == body(fault)
    IN
    /\ pcBulk = "loop"
    /\ idx < Len(req.batch)
    \* a fault is one of a call this record makes
    /\ fault = "none" \/ out # body("none")
    /\ students' = out.students
    /\ trail' = Append(trail, Trail(fault, students, out))
    /\ IF out.raised
       THEN /\ pcBulk' = "aborted" /\ httpStatus' = 500
            /\ UNCHANGED <<idx, results, created_count, updated_count>>
       ELSE /\ results' = Append(results, [index |-> idx, status |-> out.status,
                                           student_id |-> out.student_id])
            /\ created_count' = created_count + (IF out.counted = "created" THEN 1 ELSE 0)
            /\ updated_count' = updated_count + (IF out.counted = "updated" THEN 1 ELSE 0)
            /\ idx' = idx + 1
            /\ UNCHANGED <<pcBulk, httpStatus>>
    /\ UNCHANGED <<req, notStudentVars>>

\* the loop is over: the response with the results and the counters
Respond ==
    /\ pcBulk = "loop"
    /\ idx = Len(req.batch)
    /\ pcBulk' = "done"
    /\ httpStatus' = 200
    /\ UNCHANGED <<students, req, idx, results, created_count, updated_count, trail,
                   notStudentVars>>

\* primaryField of the request body (read by upsert_bulk_students only)
PrimaryFields(route) ==
    IF route = "upsert" THEN {"email", "usn", "name"} ELSE {"email"}

NextStudents ==
    \/ \E route \in {"add", "upsert"}, batch \in SeqsUpTo(Items, MaxBatch) :
          \E primary_field \in PrimaryFields(route) :
              BulkRequest(route, primary_field, batch)
    \/ \E fault \in Faults : ProcessRecord(fault)
    \/ Respond

\* ------------------------------------------- bulk students: the claims
\* C8: a bulk add or bulk upsert request that reaches the loop never leaves
\* it early: every processed record has exactly one result entry carrying
\* its index, the response is given when every record of the batch has been
\* processed, and a non-dict record has an error entry and leaves the store
\* as it was.
C8_OneEntryPerRecord ==
    /\ pcBulk # "aborted"
    /\ Len(results) = idx /\ Len(trail) = idx
    /\ \A i \in DOMAIN results : results[i].index = i - 1
    /\ (pcBulk = "done" /\ httpStatus = 200) => idx = Len(req.batch)
    /\ \A i \in DOMAIN results :
          ~req.batch[i].dict =>
              results[i].status = "error" /\ trail[i].after = trail[i].before

\* the response to a batch whose first record is not a dict and whose second
\* record created or updated a Student
C8_Witness ==
    /\ pcBulk = "done" /\ httpStatus = 200
    /\ Len(req.batch) >= 2
    /\ ~req.batch[1].dict
    /\ results[2].status \in {"created", "updated"}

\* C9: a Student saved by a bulk create whose mail send raised stays in the
\* store, its record has the status created_email_failed, and the record is
\* counted in created_count.
C9_MailFailureKeepsStudent ==
    \A i \in DOMAIN trail :
        (trail[i].fault = "mail" /\ trail[i].persisted # NULL) =>
            /\ trail[i].persisted \in DOMAIN students
            /\ i \in DOMAIN results
            /\ results[i].status = "created_email_failed"
            /\ created_count =
                 Cardinality({j \in DOMAIN results :
                     results[j].status \in {"created", "created_email_failed"}})

\* the response to a batch in which the mail send of a created Student raised
C9_Witness ==
    /\ pcBulk = "done"
    /\ \E i \in DOMAIN trail : trail[i].fault = "mail" /\ trail[i].persisted # NULL
    /\ created_count >= 1

\* C10: an update of a matched Student by upsert_bulk_students changes only
\* fields that are in the allow-list, are not the match key, and are present
\* in the record with a non-null value, to that value; every other field and
\* every other Student keep their values.
C10_UpdateFrame ==
    \A i \in DOMAIN trail :
        (req.route = "upsert" /\ trail[i].matched # {}) =>
            /\ DOMAIN trail[i].after = DOMAIN trail[i].before
            /\ \A id \in DOMAIN trail[i].before : \A f \in StudentFields :
                  trail[i].after[id][f] # trail[i].before[id][f] =>
                      /\ id \in trail[i].matched
                      /\ f \in UpsertAllowed \ {req.primary_field}
                      /\ f \in Keys(req.batch[i])
                      /\ req.batch[i].fields[f] # JNull
                      /\ trail[i].after[id][f] = req.batch[i].fields[f]

\* a record with a null name and a password_hash key has updated the city
\* of the matched Student
C10_Witness ==
    \E i \in DOMAIN results :
        /\ results[i].status = "updated"
        /\ "password_hash" \in Keys(req.batch[i])
        /\ Get(req.batch[i], "name") = JNull /\ "name" \in Keys(req.batch[i])
        /\ trail[i].after # trail[i].before

\* C11: a record that upsert_bulk_students reports as skipped leaves the
\* store as it was and increments neither updated_count nor created_count.
C11_SkippedFrame ==
    [][(/\ req.route = "upsert"
        /\ Len(results') = Len(results) + 1
        /\ results'[Len(results')].status = "skipped")
          => /\ students' = students
             /\ updated_count' = updated_count
             /\ created_count' = created_count]_vars

\* an upsert whose first record matched a Student but held no updatable
\* field and whose second record had no match key: both skipped
C11_Witness ==
    /\ req.route = "upsert" /\ pcBulk = "done" /\ Len(results) = 2
    /\ results[1].status = "skipped" /\ trail[1].matched # {}
    /\ results[2].status = "skipped"
    /\ Falsy(Get(req.batch[2], req.primary_field))

\* C12: upsert_bulk_students changes no Student of a college other than the
\* caller's, and its query matches no such Student.
C12_CollegeScoped ==
    \A i \in DOMAIN trail :
        req.route = "upsert" =>
            \A id \in DOMAIN trail[i].before :
                trail[i].before[id].college # req.college =>
                    /\ id \notin trail[i].matched
                    /\ trail[i].after[id] = trail[i].before[id]

\* a processed record whose match-key value is held by a Student of another
\* college only
C12_Witness ==
    \E i \in DOMAIN results :
        /\ req.route = "upsert" /\ req.batch[i].dict
        /\ \E id \in DOMAIN trail[i].before :
              /\ trail[i].before[id].college # req.college
              /\ trail[i].before[id][req.primary_field]
                    = Get(req.batch[i], req.primary_field)
        /\ trail[i].matched = {}
        /\ "city" \in Keys(req.batch[i])

\* the record writes an email that a Student it did not match holds
EmailTaken(i) ==
    LET item == req.batch[i]
    IN  /\ item.dict
        /\ results[i].status # "skipped"
        /\ \/ trail[i].matched = {}
           \/ "email" \in DOMAIN SetUpdates(item, req.primary_field)
        /\ \E id \in DOMAIN trail[i].before \ trail[i].matched :
              trail[i].before[id].email = Get(item, "email")

\* C13: a create or update that would break the unique index on email gets
\* an error entry and changes nothing, no two Students ever share an email
\* or a usn, and the loop goes on to the end of the batch.
C13_UniqueViolationIsError ==
    /\ \A i, j \in DOMAIN students :
          i # j => /\ students[i].email # students[j].email
                   /\ students[i].usn = JNull \/ students[i].usn # students[j].usn
    /\ pcBulk # "aborted"
    /\ (pcBulk = "done" /\ httpStatus = 200) => Len(results) = Len(req.batch)
    /\ \A i \in DOMAIN results :
          EmailTaken(i) =>
              /\ results[i].status = "error"
              /\ trail[i].after = trail[i].before

\* the first record's email was taken (error), the second record created a
\* Student
C13_Witness ==
    /\ pcBulk = "done" /\ Len(results) = 2
    /\ EmailTaken(1) /\ trail[1].fault = "none"
    /\ results[1].status = "error"
    /\ results[2].status = "created"

\* ------------------------------------------------ Rearrange.clean: claims
\* the number of places of sequence s that hold x
CountOf(s, x) == Cardinality({i \in DOMAIN s : s[i] = x})

\* s is a rearrangement of t
IsPermutation(s, t) ==
    /\ Len(s) = Len(t)
    /\ \A x \in Range(s) \cup Range(t) : CountOf(s, x) = CountOf(t, x)

\* no id occurs twice in s
Distinct(s) == Len(s) = Cardinality(Range(s))

\* the save() of the built Rearrange question was served
GivenSaved ==
    /\ given # NoQuestion
    /\ lastSave.op = "save" /\ lastSave.kind = "rearrange"

\* a save() that raised in clean() wrote nothing
FailedSavePersistsNothing ==
    (lastSave'.op = "save" /\ ~lastSave'.ok) => (docs' = docs /\ configs' = configs)

\* C14 as stated: clean() accepts exactly when items is non-empty and
\* correct_order is a permutation of the item ids, and a save() that fails
\* persists nothing.
C14_CleanIffPermutation ==
    /\ [](GivenSaved =>
            (lastSave.ok <=> (/\ given.items # <<>>
                              /\ IsPermutation(given.correct_order, given.items))))
    /\ [][FailedSavePersistsNothing]_vars

\* C14: clean() accepts exactly when items is non-empty, no item id occurs
\* twice in items and correct_order is a permutation of the item ids; it fails
\* on a length mismatch, on an id not among the items and on a duplicated id;
\* a save() that fails persists nothing.
C14_CleanIffPermutationOfDistinct ==
    /\ [](GivenSaved =>
            /\ lastSave.ok <=> (/\ given.items # <<>>
                                /\ Distinct(given.items)
                                /\ IsPermutation(given.correct_order, given.items))
            /\ Len(given.correct_order) # Len(given.items) => ~lastSave.ok
            /\ ~(Range(given.correct_order) \subseteq Range(given.items)) => ~lastSave.ok
            /\ ~Distinct(given.correct_order) => ~lastSave.ok
            /\ lastSave.ok => docs["rearrange"] = (nextDoc - 1 :> given)
            /\ ~lastSave.ok => (docs["rearrange"] = <<>> /\ configs["rearrange"] = <<>>))
    /\ [][FailedSavePersistsNothing]_vars

\* items a, b, c were saved with a correct_order that reorders them
C14_Witness ==
    /\ GivenSaved /\ lastSave.ok
    /\ given.items = <<"a", "b", "c">>
    /\ given.correct_order = <<"c", "a", "b">>
    /\ DOMAIN docs["rearrange"] # {}

\* ------------------------------------------------- CourseMCQ.save: claims
\* several correct options on a question that is not multi-select
SeveralCorrectNotMultiple(q) == Len(q.correct_options) > 1 /\ ~q.is_multiple

\* C15: CourseMCQ.save of a question with more than one correct option and
\* is_multiple false raises before anything is persisted: the question store
\* and the Config are unchanged; no stored CourseMCQ has several correct
\* options with is_multiple false.
C15_InvalidMCQNotPersisted ==
    /\ [](\A id \in DOMAIN docs["mcq"] : ~SeveralCorrectNotMultiple(docs["mcq"][id]))
    /\ [][\A id \in 1..MaxSaves, q \in MCQInputs :
            (SeveralCorrectNotMultiple(q) /\ SaveQuestion("mcq", id, q))
               => /\ docs' = docs /\ configs' = configs
                  /\ lastSave'.op = "save" /\ ~lastSave'.ok]_vars

\* a save of a CourseMCQ raised while questions and a Config were stored
C15_Witness ==
    /\ lastSave.op = "save" /\ lastSave.kind = "mcq" /\ ~lastSave.ok
    /\ lastSave.id \in DOMAIN docs["mcq"]
    /\ configs["mcq"] # <<>>

SharedBefore ==
    {tc \in DOMAIN lastDelete.pre.testcases :
        \E q \in DOMAIN lastDelete.pre.questions \ {lastDelete.target} :
           \E g \in Range(lastDelete.pre.questions[q].testcase_groups)
                      \cap DOMAIN lastDelete.pre.testcase_groups :
              tc \in Range(lastDelete.pre.testcase_groups[g].cases)}

\* the request issued a delete for document id of collection coll and the
\* call raised
OwnDeleteFailed(coll, id) ==
    \E i \in DOMAIN lastDelete.log :
       /\ lastDelete.log[i].coll = coll
       /\ id \in Range(lastDelete.log[i].ids)
       /\ ~lastDelete.log[i].ok

\* C17: CourseQuestion.delete with use_transaction=True is atomic: when one
\* of its three deletes fails, none of the TestCases, the groups and the
\* question has been removed from the store.
C17_TransactionAtomic ==
    (/\ lastDelete.op = "CourseQuestion.delete"
     /\ lastDelete.use_transaction
     /\ lastDelete.raised)
        => \A coll \in {"testcases", "testcase_groups", "questions"} :
              OwnedBefore[coll] \subseteq DOMAIN db[coll]

\* C18: deleting a CourseQuestion does not remove a TestCase that a
\* TestCaseGroup of another, still existing CourseQuestion references.
C18_SharedTestCaseKept ==
    lastDelete.op = "CourseQuestion.delete"
        => \A tc \in SharedBefore :
              (\E q \in DOMAIN db.questions \ {lastDelete.target} :
                 \E g \in Range(lastDelete.pre.questions[q].testcase_groups)
                            \cap DOMAIN db.testcase_groups :
                    tc \in Range(lastDelete.pre.testcase_groups[g].cases))
                 => tc \in DOMAIN db.testcases

\* C19: after Course.delete returns, with any delete steps failing, every
\* owned descendant still in the store is one whose own delete call failed.
C19_SurvivorsFailedThemselves ==
    lastDelete.op = "Course.delete"
        => \A coll \in Collections \ {"courses"} :
              \A id \in OwnedBefore[coll] \cap DOMAIN db[coll] :
                 OwnDeleteFailed(coll, id)

\* ------------------------------------- CourseQuestion.delete step by step
\* the ids of the store calls of the request that returned
DeletedSoFar(coll) ==
    UNION {Range(lastDelete.log[i].ids) :
              i \in {j \in DOMAIN lastDelete.log :
                        lastDelete.log[j].coll = coll /\ lastDelete.log[j].ok}}

\* C20: the non-transactional CourseQuestion.delete deletes the TestCases,
\* then the TestCaseGroups, then the question, with no rollback: in every
\* intermediate state the question exists while one of its snapshotted groups
\* exists, a group is gone only when the collected TestCases are gone, and a
\* failure at a later step leaves the earlier deletes in effect.
C20_DeleteOrderNoRollback ==
    /\ [](running.status # "idle" =>
            /\ Range(running.group_ids) \cap DOMAIN db.testcase_groups # {}
                  => running.q \in DOMAIN db.questions
            /\ Range(running.group_ids) \ DOMAIN db.testcase_groups # {}
                  => Range(running.tc_ids) \cap DOMAIN db.testcases = {}
            /\ \A coll \in Collections : DeletedSoFar(coll) \cap DOMAIN db[coll] = {})
    /\ [][running.status = "running" =>
            /\ \A coll \in Collections : DOMAIN db'[coll] \subseteq DOMAIN db[coll]
            /\ \A i \in DOMAIN lastDelete.log :
                  i \in DOMAIN lastDelete'.log /\ lastDelete'.log[i] = lastDelete.log[i]]_vars

\* the TestCase delete returned, the TestCaseGroup delete raised: the
\* TestCases are gone, the group and the question are stored
C20_Witness ==
    /\ running.status = "raised"
    /\ Len(lastDelete.log) = 2
    /\ lastDelete.log[1].coll = "testcases" /\ lastDelete.log[1].ok
    /\ lastDelete.log[2].coll = "testcase_groups" /\ ~lastDelete.log[2].ok
    /\ Range(running.tc_ids) # {}
    /\ Range(running.tc_ids) \cap DOMAIN db.testcases = {}
    /\ Range(running.group_ids) \subseteq DOMAIN db.testcase_groups
    /\ running.q \in DOMAIN db.questions

\* ------------------------------------------------------ Unit.delete: claims
\* the request issued a store delete on collection coll on behalf of document by
Attempted(coll, by) ==
    \E i \in DOMAIN lastDelete.log :
       lastDelete.log[i].coll = coll /\ lastDelete.log[i].by = by

\* the payload fields of the deleted Unit that referenced a stored document
PayloadsBefore ==
    {field \in {"mcq", "rearrange", "coding"} :
        lastDelete.pre.units[lastDelete.target][field]
            \in DOMAIN lastDelete.pre[PayloadColl(field)]}

\* C21: Unit.delete attempts the delete of each non-null payload reference
\* (mcq, rearrange, coding) independently: a failing payload delete prevents
\* neither the attempts on the others nor the delete of the Unit, and is not
\* reported to the caller.
C21_PayloadsIndependent ==
    lastDelete.op = "Unit.delete"
        => LET doc == lastDelete.pre.units[lastDelete.target]
           IN  /\ \A field \in PayloadsBefore :
                     \E coll \in Collections : Attempted(coll, doc[field])
               /\ Attempted("units", lastDelete.target)
               /\ lastDelete.raised <=> Step("units", lastDelete.target) \in lastDelete.faults
               /\ Step("units", lastDelete.target) \notin lastDelete.faults
                     => lastDelete.target \notin DOMAIN db.units

\* a Unit with three payloads was deleted; the delete of its mcq raised, the
\* rearrange and the question were deleted, and so was the Unit
C21_Witness ==
    /\ lastDelete.op = "Unit.delete" /\ ~lastDelete.raised
    /\ PayloadsBefore = {"mcq", "rearrange", "coding"}
    /\ \E i \in DOMAIN lastDelete.log :
          lastDelete.log[i].coll = "mcqs" /\ ~lastDelete.log[i].ok
    /\ db.rearranges = <<>> /\ db.questions = <<>> /\ db.units = <<>>
    /\ db.mcqs # <<>>

\* ------------------------------------------- owner deletes: order of calls
\* the owners of the course graph: collection, reference list, child collection
Ownership ==
    {<<"courses", "chapters", "chapters">>, <<"chapters", "lessons", "lessons">>,
     <<"lessons", "units", "units">>}

\* the place in the request's trace of the delete of document id itself
Pos(coll, id) ==
    CHOOSE i \in DOMAIN lastDelete.log :
        lastDelete.log[i].coll = coll /\ lastDelete.log[i].by = id

\* C22: Lesson.delete, Chapter.delete and Course.delete invoke the delete of
\* each owned child in the order of the owner's reference list, go on with
\* the remaining children when a child's delete fails, and delete the owner
\* itself only after every child has been attempted.
C22_ChildrenInOrderThenOwner ==
    lastDelete.op = "Course.delete"
        => \A e \in Ownership : \A o \in DOMAIN lastDelete.pre[e[1]] :
              LET children == lastDelete.pre[e[1]][o][e[2]]
              IN  Attempted(e[1], o)
                    => /\ \A i \in DOMAIN children :
                             /\ Attempted(e[3], children[i])
                             /\ Pos(e[3], children[i]) < Pos(e[1], o)
                       /\ \A i, j \in DOMAIN children :
                             i < j => Pos(e[3], children[i]) < Pos(e[3], children[j])

\* a Lesson with two Units was deleted with the Course; the delete of the
\* first Unit raised and the second Unit and the Lesson were deleted after it
C22_Witness ==
    /\ lastDelete.op = "Course.delete"
    /\ \E l \in DOMAIN lastDelete.pre.lessons :
          LET us == lastDelete.pre.lessons[l].units
          IN  /\ Len(us) = 2
              /\ ~lastDelete.log[Pos("units", us[1])].ok
              /\ lastDelete.log[Pos("units", us[2])].ok
              /\ lastDelete.log[Pos("lessons", l)].ok
              /\ us[1] \in DOMAIN db.units /\ us[2] \notin DOMAIN db.units

\* --------------------------------------- update_section: partial failures
\* the Tests that referenced the Section before the request and now hold it
\* in neither list
LostReference ==
    {t \in lastReq.before \cap DOMAIN tests :
        lastReq.section \notin Range(tests[t].sections_time_restricted)
                                 \cup Range(tests[t].sections_open)}

\* C23: whenever update_section leaves a Test with the Section in neither
\* list, the pull having succeeded and the push having failed, the request
\* returns the error outcome (success false, status 500) and never success.
C23_LostReferenceIsError ==
    (lastReq.op = "update_section" /\ LostReference # {})
        => (~lastReq.success /\ lastReq.status = 500)

\* an update_section whose push failed on a Test: the Section's flag is
\* flipped and the Test holds the Section in neither list
C23_Witness ==
    /\ lastReq.op = "update_section" /\ lastReq.flipped
    /\ LostReference # {}
    /\ lastReq.status = 500

\* the Tests that held the Section in the list of the old flag value before
\* the request still hold it there
NotMoved ==
    {t \in lastReq.before \cap DOMAIN tests :
        lastReq.section
            \in Range(tests[t][ListOf(~sections[lastReq.section].time_restricted)])}

\* C24: when moving the Section's reference fails for one Test (here: its
\* push raised after its pull), update_section still moves the reference on
\* every other Test that held the Section in the old list.
C24_OtherTestsMoved ==
    (lastReq.op = "update_section" /\ lastReq.flipped /\ LostReference # {})
        => NotMoved = {}

\* ---------------------------------------- cascading delete: the outcome
\* a delete call of a child or payload raised inside the request
InnerDeleteFailed ==
    \E i \in DOMAIN lastDelete.log :
       /\ ~lastDelete.log[i].ok
       /\ lastDelete.log[i].by # lastDelete.target

\* C25: a cascading delete in which some child or payload delete failed
\* reports to its caller an outcome distinct from that of a fully successful
\* delete. The caller sees only whether delete() raised.
C25_PartialFailureReported ==
    (lastDelete.op = "Course.delete" /\ InnerDeleteFailed) => lastDelete.raised

\* ------------------------------------- update_section: the Section first
\* C26: update_section saves the Section before it changes a list of a Test:
\* a request answered with 400 or 404 (no valid field, or the save of the
\* Section failed) changes no Section and no Test, and a request that changed
\* a list of a Test has stored the new flag of the Section.
C26_SectionSavedFirst ==
    [][lastReq'.op = "update_section" =>
         /\ lastReq'.status \in {400, 404} => (tests' = tests /\ sections' = sections)
         /\ tests' # tests =>
              /\ lastReq'.flipped
              /\ sections'[lastReq'.section].time_restricted
                    # sections[lastReq'.section].time_restricted]_vars

\* the save of the Section failed in a request that flips the flag of a
\* Section some Test references
C26_Witness ==
    /\ lastReq.op = "update_section" /\ lastReq.status = 400
    /\ lastReq.flipped /\ lastReq.before # {}

\* --------------------------- update_section, one store call at a time
\* another handler is serving an update_section request
OthersUpdating(p) ==
    \E o \in Procs \ {p} : updating[o].pc \notin {"idle", "done"}

\* the response of the update_section request of handler p
Answer(p, status) ==
    [updating[p] EXCEPT !.pc = "done", !.status = status,
                        !.failed = @ \/ status # 200]

\* Section.objects.get(id=section_id) and the assignments from the body; a
\* handler serves one request
LoadSection(p, section_id, data) ==
    LET old == sections[section_id]
        new == Assigned(old, data)
        request == [NotUpdating EXCEPT
                      !.section_id = section_id,
                      !.old = old.time_restricted,
                      !.new = new.time_restricted,
                      !.overlapped = updating[p].overlapped \/ OthersUpdating(p),
                      !.failed = updating[p].failed]
    IN
    /\ updating[p].pc = "idle"
    /\ section_id \in DOMAIN sections
    /\ "name" \notin DOMAIN data
    /\ updating' = [updating EXCEPT
                      ![p] = IF Updated(data) THEN [request EXCEPT !.pc = "loaded"]
                             ELSE [request EXCEPT !.pc = "done", !.status = 400,
                                                  !.failed = TRUE]]
    /\ UNCHANGED <<running, adding, sectionVars, cascadeVars, configVars, studentVars>>

\* section.save(): the fields assigned a value other than the loaded one are
\* written
SaveSection(p) ==
    LET u == updating[p]
    IN
    /\ u.pc = "loaded"
    /\ sections' = IF u.new # u.old
                   THEN [sections EXCEPT ![u.section_id].time_restricted = u.new]
                   ELSE sections
    /\ updating' = [updating EXCEPT
                      ![p] = IF u.new # u.old THEN [u EXCEPT !.pc = "saved"]
                             ELSE Answer(p, 200)]
    /\ UNCHANGED <<running, adding, tests, nextSection, lastReq, testReq,
                   cascadeVars, configVars, studentVars>>

\* a query for the Tests that hold the Section in the list of the new flag
QueryTestsNewList(p) ==
    LET u == updating[p]
        tests_with_old == TestsWith(tests, ListOf(u.new), u.section_id)
    IN
    /\ u.pc = "saved"
    /\ updating' = [updating EXCEPT
                      ![p] = IF tests_with_old = <<>> THEN Answer(p, 200)
                             ELSE [u EXCEPT !.pc = "moving",
                                            !.tests_with_old = tests_with_old]]
    /\ UNCHANGED <<running, adding, sectionVars, cascadeVars, configVars, studentVars>>

\* tests_with_old = Test.objects(<old list>=section), read when the loop starts
QueryTests(p) ==
    LET u == updating[p]
        tests_with_old == TestsWith(tests, ListOf(u.old), u.section_id)
    IN
    /\ u.pc = "saved"
    /\ updating' = [updating EXCEPT
                      ![p] = IF tests_with_old = <<>> THEN Answer(p, 200)
                             ELSE [u EXCEPT !.pc = "moving",
                                            !.tests_with_old = tests_with_old]]
    /\ UNCHANGED <<running, adding, sectionVars, cascadeVars, configVars, studentVars>>

\* t.update(pull__<old list>=section)
PullRef(p) ==
    LET u == updating[p]
    IN
    /\ u.pc = "moving" /\ ~u.pulled
    /\ tests' = Pull(tests, Head(u.tests_with_old), ListOf(u.old), u.section_id)
    /\ updating' = [updating EXCEPT ![p].pulled = TRUE]
    /\ UNCHANGED <<running, adding, sections, nextSection, lastReq, testReq,
                   cascadeVars, configVars, studentVars>>

\* t.update(push__<new list>=section); when it raises the loop is left and
\* the response is 500
PushRef(p, raises) ==
    LET u == updating[p]
    IN
    /\ u.pc = "moving" /\ u.pulled
    /\ IF raises
       THEN /\ updating' = [updating EXCEPT ![p] = Answer(p, 500)]
            /\ UNCHANGED tests
       ELSE /\ tests' = Push(tests, Head(u.tests_with_old), ListOf(u.new), u.section_id)
            /\ updating' = [updating EXCEPT
                              ![p] = IF Tail(u.tests_with_old) = <<>> THEN Answer(p, 200)
                                     ELSE [u EXCEPT !.tests_with_old = Tail(@),
                                                    !.pulled = FALSE]]
    /\ UNCHANGED <<running, adding, sections, nextSection, lastReq, testReq,
                   cascadeVars, configVars, studentVars>>

\* Tests and Sections are created and attached, and two handlers serve
\* update_section requests one store call at a time
NextSectionMoves ==
    \/ AddTest("09:00", "10:00")
    \/ \E t \in DOMAIN tests, s \in DOMAIN sections : AttachSection(t, s)
    \/ \E test_id \in TestIds, time_restricted \in JBool :
          AddSectionToTest(test_id, "n1", time_restricted, "none")
    \/ \E p \in Procs, section_id \in 1..MaxSections, data \in UpdateBodies :
          LoadSection(p, section_id, data)
    \/ \E p \in Procs : SaveSection(p)
    \/ \E p \in Procs : QueryTests(p)
    \/ \E p \in Procs : PullRef(p)
    \/ \E p \in Procs, raises \in BOOLEAN : PushRef(p, raises)

\* every Test that references a Section holds it in the list of the stored
\* flag of the Section and not in the other list
RefsMatchFlag ==
    \A s \in DOMAIN sections : \A t \in Referencing(tests, s) :
        /\ s \in Range(tests[t][ListOf(sections[s].time_restricted)])
        /\ s \notin Range(tests[t][ListOf(~sections[s].time_restricted)])

\* no update_section request is being served and none was answered with an
\* error
UpdatesCompleted ==
    \A p \in Procs : updating[p].pc \in {"idle", "done"} /\ ~updating[p].failed

\* C27 as stated: after the update_section requests have completed without a
\* reported failure, also when two of them interleave, every Test holds the
\* Section in the list that matches its stored flag.
C27_RefsMatchFlag == UpdatesCompleted => RefsMatchFlag

\* C27: after update_section requests that were served one after the other
\* have completed without a reported failure, every Test that references the
\* Section holds it in the list that matches its stored time_restricted flag.
C27_SerialRefsMatchFlag ==
    (UpdatesCompleted /\ \A p \in Procs : ~updating[p].overlapped) => RefsMatchFlag

\* two flips served one after the other, the second of which moved a
\* reference
C27_Witness ==
    /\ UpdatesCompleted /\ \A p \in Procs : ~updating[p].overlapped
    /\ \A p \in Procs : updating[p].pc = "done" /\ updating[p].new # updating[p].old
    /\ \E p \in Procs : updating[p].tests_with_old # <<>>
                        /\ sections[updating[p].section_id].time_restricted = updating[p].new

\* ----------------------- add_section_to_test, one store call at a time
\* test = Test.objects.get(id=test_id): the handler holds the lists of the
\* Test as they are stored now; a handler serves one request
GetTest(p, test_id, time_restricted) ==
    /\ adding[p].pc = "idle"
    /\ test_id \in DOMAIN tests
    /\ adding' = [adding EXCEPT
                    ![p] = [NotAdding EXCEPT
                              !.pc = "read", !.test_id = test_id,
                              !.time_restricted = Bool(time_restricted),
                              !.list = tests[test_id][ListOf(Bool(time_restricted))]]]
    /\ UNCHANGED <<running, updating, sectionVars, cascadeVars, configVars, studentVars>>

\* section.save(): the Section is stored under a fresh id
CreateSection(p) ==
    LET a == adding[p]
    IN
    /\ a.pc = "read"
    /\ sections' = Put(sections, nextSection, Section("n1", a.time_restricted))
    /\ nextSection' = nextSection + 1
    /\ adding' = [adding EXCEPT ![p] = [a EXCEPT !.pc = "created", !.section = nextSection]]
    /\ UNCHANGED <<running, updating, tests, lastReq, testReq,
                   cascadeVars, configVars, studentVars>>

\* test.<list> = (test.<list> or []) + [section]; test.save() writes the
\* assigned list as a whole. When save() raises the Section is deleted again
SaveTest(p, raises) ==
    LET a == adding[p]
    IN
    /\ a.pc = "created"
    /\ IF raises
       THEN /\ sections' = Remove(sections, {a.section})
            /\ adding' = [adding EXCEPT ![p] = [a EXCEPT !.pc = "done", !.status = 500]]
            /\ UNCHANGED tests
       ELSE /\ tests' = [tests EXCEPT ![a.test_id][ListOf(a.time_restricted)] =
                                         Append(a.list, a.section)]
            /\ adding' = [adding EXCEPT ![p] = [a EXCEPT !.pc = "done", !.status = 201]]
            /\ UNCHANGED sections
    /\ UNCHANGED <<running, updating, nextSection, lastReq, testReq,
                   cascadeVars, configVars, studentVars>>

\* Tests are created and two handlers serve add_section_to_test requests one
\* store call at a time
NextSectionAdds ==
    \/ AddTest("09:00", "10:00")
    \/ \E p \in Procs, test_id \in TestIds, time_restricted \in JBool :
          GetTest(p, test_id, time_restricted)
    \/ \E p \in Procs : CreateSection(p)
    \/ \E p \in Procs, raises \in BOOLEAN : SaveTest(p, raises)

\* C28: when two add_section_to_test requests on the same Test interleave
\* and both return success, the Test references both created Sections.
C28_NoAttachmentLost ==
    \A p, o \in Procs :
        (/\ p # o
         /\ adding[p].status = 201 /\ adding[o].status = 201
         /\ adding[p].test_id = adding[o].test_id)
        => adding[p].test_id \in Referencing(tests, adding[p].section)

\* ------------------------------------------ bulk upsert: the counters
\* the result entries with one of the given statuses
WithStatus(statuses) == {i \in DOMAIN results : results[i].status \in statuses}

\* C29: in every response of upsert_bulk_students created_count is the
\* number of Students the batch added to the store and the number of results
\* with status created or created_email_failed, updated_count is the number
\* of results with status updated, and the two counters together are at most
\* total_received.
C29_CountsMatchResults ==
    (req.route = "upsert" /\ pcBulk = "done" /\ httpStatus = 200) =>
        /\ created_count = Cardinality(DOMAIN students)
                              - Cardinality(DOMAIN trail[1].before)
        /\ created_count = Cardinality(WithStatus({"created", "created_email_failed"}))
        /\ updated_count = Cardinality(WithStatus({"updated"}))
        /\ created_count + updated_count <= Len(req.batch)

\* the response to a batch of which one record updated a Student and one
\* created a Student whose mail send failed
C29_Witness ==
    /\ req.route = "upsert" /\ pcBulk = "done" /\ httpStatus = 200
    /\ WithStatus({"created_email_failed"}) # {}
    /\ WithStatus({"updated"}) # {}
    /\ created_count = 1 /\ updated_count = 1

\* ------------------------------------ add_section_to_test: attach or undo
\* C30: add_section_to_test appends the new Section to the list of the Test
\* that matches its time_restricted flag and to no other list; when the save
\* of the Test fails and the delete of the Section succeeds, the Section is
\* gone again, the lists of every Test are as before and the response is an
\* error.
C30_AttachOrUndo ==
    [][\A test_id \in DOMAIN tests, time_restricted \in JBool \cup {JNull} :
         /\ AddSectionToTest(test_id, "n1", time_restricted, "none") =>
              /\ lastReq'.status = 201
              /\ sections'[nextSection].time_restricted = (time_restricted = "true")
              /\ tests' = [tests EXCEPT
                             ![test_id] = IF time_restricted = "true"
                                          THEN [@ EXCEPT !.sections_time_restricted =
                                                           Append(@, nextSection)]
                                          ELSE [@ EXCEPT !.sections_open =
                                                           Append(@, nextSection)]]
         /\ AddSectionToTest(test_id, "n1", time_restricted, "test_save") =>
              /\ lastReq'.status = 500 /\ ~lastReq'.success
              /\ tests' = tests
              /\ sections' = sections /\ nextSection \notin DOMAIN sections']_vars

\* the save of an existing Test failed and the created Section is gone
C30_Witness ==
    /\ lastReq.op = "add_section_to_test" /\ lastReq.status = 500
    /\ lastReq.section \notin DOMAIN sections
    /\ DOMAIN tests # {}

\* ------------------------------------------------------- specifications
Init == InitCascade /\ InitSections /\ InitConfig /\ InitStudents

Next ==
    \/ NextCascade \/ NextUnits \/ NextQuestionSteps \/ NextSections \/ NextTests \/ NextConfig \/ NextConfigConc \/ NextStudents
    \/ NextRearrange
    \/ NextSectionAdds
    \/ NextSectionMoves

Spec == Init /\ [][Next]_vars

SpecCascade == Init /\ [][NextCascade]_vars

SpecSections == Init /\ [][NextSections]_vars

SpecConfig == Init /\ [][NextConfig]_vars

SpecConfigConc == Init /\ [][NextConfigConc]_vars

SpecSectionAdds == Init /\ [][NextSectionAdds]_vars

SpecSectionMoves == Init /\ [][NextSectionMoves]_vars

SpecStudents == Init /\ [][NextStudents]_vars

SpecUnits == Init /\ [][NextUnits]_vars

SpecQuestionSteps == Init /\ [][NextQuestionSteps]_vars

SpecTests == Init /\ [][NextTests]_vars

SpecRearrange == Init /\ [][NextRearrange]_vars

====
